---- MODULE Spec2Model ----
(***************************************************************************)
(* A model of the backend of "Proof of Becoming":                          *)
(*   - lib/retry.py    retry_async, the retry executor with backoff        *)
(*   - api/qrng.py     generate_quantum_seed, the randomness selector      *)
(*   - api/verify.py   verify_proof, the proof verification pipeline       *)
(* Time is counted in tenths of a second (1.0 s = 10), so that the 10%     *)
(* jitter range of every delay used here is a whole number.  Text is a     *)
(* sequence of one-character strings.                                      *)
(***************************************************************************)
EXTENDS Integers, Sequences, FiniteSets, TLC

VARIABLES
    \* ---- retry_async (lib/retry.py) ----
    pc,              \* position of the retry_async coroutine
    config,          \* the RetryConfig in use
    attempt,         \* loop variable of the for loop
    delay,           \* running backoff delay
    last_exception,  \* last retryable exception caught
    current_delay,   \* argument of the asyncio.sleep in progress
    history,         \* what each invocation of func did, in order (observer)
    sleeps,          \* number of asyncio.sleep calls made (observer)
    ret,             \* how retry_async ended: a return value or a raised exception
    log,             \* the records retry_async wrote to its logger, in order
    \* ---- verify_proof (api/verify.py) ----
    vpc,             \* position of the verify_proof coroutine
    body,            \* the VerifyRequest
    heur,            \* verified, confidence, reason, checks of heuristic_verification
    scores,          \* every value assigned to confidence, in order (observer)
    ai_calls,        \* arguments of the calls of ai_vision_verification (observer)
    classified,      \* what the call of the classifier did (observer)
    ai_adjustment,   \* the adjustment ai_vision_verification returned
    ai_feedback,     \* the feedback ai_vision_verification returned
    response,        \* the VerifyResponse returned, or the error raised
    \* ---- generate_quantum_seed (api/qrng.py) ----
    spc,             \* position of the generate_quantum_seed coroutine
    size,            \* the size query parameter
    seed_bytes,      \* the bytes object the seed was made from (observer)
    seed_response,   \* the QuantumSeedResponse returned, or the error raised
    answer,          \* what the endpoint answered to the call just made (observer)
    clock,           \* the time: every await lets it advance, by one in this model
    timestamp,       \* the reading of the clock made on line 122
    \* ---- retry_with_exponential_backoff (lib/retry.py) ----
    decorated,       \* the decorator's keyword arguments, None in a direct call
    \* ---- concurrent calls of retry_async on one event loop ----
    tasks,           \* the locals of each task's retry_async call
    presets,         \* the module-level RetryConfig objects, by name
    \* ---- pin_encrypted_data (api/ipfs.py) ----
    ipc,             \* position of the pin_encrypted_data coroutine
    pin_request,     \* the PinRequest
    data_bytes,      \* the decoded payload
    store_calls,     \* the requests made to the IPFS node, in order (observer)
    pin_response,    \* the PinResponse returned, or the HTTPException raised
    store_answers,   \* what the IPFS node answered, in order (observer)
    \* ---- GET /api/ipfs/<segment> (api/ipfs.py) ----
    gpc,             \* position of the handler of the GET request
    get_request,     \* the path segment requested
    handler,         \* the handler the router dispatched the request to
    get_response,    \* the response returned, or the HTTPException raised
    \* ---- limiter (middleware/ratelimit.py) in front of the endpoints ----
    now,             \* time.time(), in seconds
    storage,         \* the limiter's counters, by key (0: no entry)
    expirations,     \* when each counter expires (0: no entry)
    minute,          \* start and size of each key's minute in progress (observer)
    served           \* the last request made, and how it was answered (observer)

retryVars == <<pc, config, attempt, delay, last_exception, current_delay,
               history, sleeps, ret, log>>

verifyVars == <<vpc, body, heur, scores, ai_calls, classified, ai_adjustment,
                ai_feedback, response>>

seedVars == <<spc, size, seed_bytes, seed_response, answer, clock, timestamp>>

pinVars == <<ipc, pin_request, data_bytes, store_calls, pin_response,
            store_answers>>

getVars == <<gpc, get_request, handler, get_response>>

taskVars == <<tasks, presets>>

limitVars == <<now, storage, expirations, minute, served>>

vars == <<retryVars, verifyVars, seedVars, pinVars, decorated, taskVars,
         getVars, limitVars>>

None == [kind |-> "None"]

Min(a, b) == IF a <= b THEN a ELSE b
Max(a, b) == IF a >= b THEN a ELSE b

----------------------------------------------------------------------------
(* Bounds of the model *)

\* largest max_attempts of the enumerated configurations
MaxAttempts == 3

\* number of tasks on the event loop
NumTasks == 2

\* requests a client makes beyond the configured limit within one minute
MaxOver == 1

\* half minutes the clock advances
MaxTicks == 2

----------------------------------------------------------------------------
(* lib/retry.py *)

\* RetryConfig(): the dataclass defaults (1.0 s = 10, 60.0 s = 600)
RetryConfig ==
    [max_attempts |-> 3, initial_delay |-> 10, max_delay |-> 600,
     backoff_factor |-> 2, jitter |-> TRUE,
     retryable_exceptions |-> <<"Exception">>]

\* the PATIENT_RETRY preset in the place of NETWORK_RETRY
NETWORK_RETRY_Patient ==
    [max_attempts |-> 5, initial_delay |-> 20, max_delay |-> 600,
     backoff_factor |-> 2, jitter |-> TRUE,
     retryable_exceptions |-> <<"Exception">>]

\* NETWORK_RETRY preset (2.0 s = 20, 16.0 s = 160); jitter keeps its default
NETWORK_RETRY ==
    [max_attempts |-> 4, initial_delay |-> 20, max_delay |-> 160,
     backoff_factor |-> 2, jitter |-> TRUE,
     retryable_exceptions |-> <<"Exception">>]

\* The configurations a caller passes in this model
Configs ==
    [max_attempts : -1..MaxAttempts, initial_delay : {10, 50},
     max_delay : {20, 40}, backoff_factor : {1, 2, 3}, jitter : BOOLEAN,
     retryable_exceptions : {<<"Exception">>, <<"RetryableError">>}]

\* The config argument of retry_async: a RetryConfig or None
ConfigArgs == Configs \cup {None}

\* Python's exception classes used here and their base classes
Bases(cls) ==
    IF cls = "CancelledError" THEN {cls, "BaseException"}
    ELSE {cls, "Exception", "BaseException"}

\* What one invocation of func does: return a value, or raise an exception.
\* An exception carries the number of the invocation that raised it.
Returned(v) == [kind |-> "return", value |-> v]
Raised(cls, n, msg) == [kind |-> "raise", cls |-> cls, at |-> n, msg |-> msg]

FuncResults == {"r1", "r2"}
FuncErrors == {"RetryableError", "NonRetryableError", "CancelledError"}
FuncOutcomes(n) ==
    {Returned(v) : v \in FuncResults} \cup {Raised(c, n, "fail") : c \in FuncErrors}

\* a handler that catches everything, whatever the configured classes
IsRetryable_CatchAll(cfg, e) == TRUE

\* `except config.retryable_exceptions as e`: isinstance against the tuple
IsRetryable(cfg, e) ==
    \E i \in 1..Len(cfg.retryable_exceptions) :
        cfg.retryable_exceptions[i] \in Bases(e.cls)

\* a comparison that never finds the last attempt
IsLastAttempt_Late(cfg, a) == a > cfg.max_attempts

\* giving up one attempt early
IsLastAttempt_Early(cfg, a) == a >= cfg.max_attempts - 1

\* `if attempt == config.max_attempts`
IsLastAttempt(cfg, a) == a = cfg.max_attempts

\* a delay that is never capped
CappedDelay_NoCap(cfg, d) == d

\* `current_delay = min(delay, config.max_delay)`
CappedDelay(cfg, d) == Min(d, cfg.max_delay)

\* `jitter_range = current_delay * 0.1`
JitterPercent == 10

\* a jitter range of half the delay
JitterRange_Wide(cd) == cd \div 2

JitterRange(cd) == (cd * JitterPercent) \div 100

\* `current_delay += random.uniform(-jitter_range, jitter_range)` then
\* `current_delay = max(0, current_delay)`: every value the draw can give,
\* at the resolution of the time unit
Jittered(cd) ==
    LET jr == JitterRange(cd)
    IN  {Max(0, cd + j) : j \in Min(-jr, jr)..Max(-jr, jr)}

\* the values current_delay can have when asyncio.sleep is called
SleepDelays(cfg, d) ==
    IF cfg.jitter THEN Jittered(CappedDelay(cfg, d)) ELSE {CappedDelay(cfg, d)}

\* a delay that never grows
NextDelay_NoGrowth(cfg, d) == d

\* `delay *= config.backoff_factor`
NextDelay(cfg, d) == d * cfg.backoff_factor

\* raising the first failure instead of the one being handled
Reraised_First(raised) == raised[1]

\* the exception re-raised by the bare `raise` in the except block: the one
\* being handled, out of all those func raised so far
Reraised(raised) == raised[Len(raised)]

\* losing the result of func
ReturnValue_Dropped(out) == Returned("None")

\* the value retry_async returns when func returned `out`
ReturnValue(out) == Returned(out.value)

\* `logger.info(f"Succeeded on attempt {attempt}/{config.max_attempts}")`
LogSucceeded(cfg, a) ==
    [level |-> "info", attempt |-> a, max_attempts |-> cfg.max_attempts]

\* an error record that counts the attempts before the last one
LogAllFailed_OffByOne(cfg, e) ==
    [level |-> "error", attempts |-> cfg.max_attempts - 1, error |-> e.msg]

\* `logger.error(f"All {config.max_attempts} attempts failed. Last error: {e}")`
LogAllFailed(cfg, e) ==
    [level |-> "error", attempts |-> cfg.max_attempts, error |-> e.msg]

\* `logger.warning(f"Attempt {attempt}/{config.max_attempts} failed: {e}. ...")`
\* (the formatted wait of the message is left out of the record)
LogRetrying(cfg, a, e) ==
    [level |-> "warning", attempt |-> a, max_attempts |-> cfg.max_attempts,
     error |-> e.msg]

\* a function that falls off its end and so returns None
AfterLoop_ReturnsNone(last) == Returned("None")

\* after the loop: `if last_exception: raise last_exception`, then
\* `raise Exception("Retry logic error")`
AfterLoop(last) ==
    IF last # None THEN last ELSE Raised("Exception", 0, "Retry logic error")

\* mock.call_count: how many times func was invoked
calls == Len(history)

RetryIdle ==
    /\ pc = "idle"
    /\ config = None
    /\ attempt = 0
    /\ delay = 0
    /\ last_exception = None
    /\ current_delay = 0
    /\ history = <<>>
    /\ sleeps = 0
    /\ ret = None
    /\ log = <<>>
    /\ decorated = None

\* retry_async is called: lines 51-55, and the loop header.  With
\* max_attempts <= 0 the loop body never runs and lines 93-95 raise.
RetryCall(c) ==
    /\ pc = "idle"
    /\ LET cfg == IF c = None THEN RetryConfig ELSE c
       IN  /\ config' = cfg
           /\ delay' = cfg.initial_delay
           /\ IF cfg.max_attempts >= 1
                 THEN /\ pc' = "attempt"
                      /\ attempt' = 1
                      /\ ret' = ret
                 ELSE /\ pc' = "done"
                      /\ attempt' = attempt
                      /\ ret' = AfterLoop(None)
    /\ last_exception' = None
    /\ UNCHANGED <<current_delay, history, sleeps, log>>

\* One pass of the loop body up to its next await: func is invoked and
\* ends as `out`; lines 58-87.
RetryAttempt(out) ==
    /\ pc = "attempt"
    /\ history' = Append(history, out)
    /\ IF out.kind = "return"
          THEN /\ ret' = ReturnValue(out)
               /\ log' = IF attempt > 1
                         THEN Append(log, LogSucceeded(config, attempt)) ELSE log
               /\ pc' = "done"
               /\ UNCHANGED <<last_exception, current_delay, sleeps>>
          ELSE IF ~IsRetryable(config, out)
          THEN /\ ret' = out
               /\ pc' = "done"
               /\ UNCHANGED <<last_exception, current_delay, sleeps, log>>
          ELSE /\ last_exception' = out
               /\ IF IsLastAttempt(config, attempt)
                     THEN /\ ret' = Reraised(history')
                          /\ log' = Append(log, LogAllFailed(config, out))
                          /\ pc' = "done"
                          /\ UNCHANGED <<current_delay, sleeps>>
                     ELSE /\ current_delay' \in SleepDelays(config, delay)
                          /\ log' = Append(log, LogRetrying(config, attempt, out))
                          /\ sleeps' = sleeps + 1
                          /\ pc' = "sleep"
                          /\ ret' = ret
    /\ UNCHANGED <<config, attempt, delay>>

\* asyncio.sleep returns: line 90, then the loop header; lines 93-95 when
\* the loop is over.  current_delay is assigned again before it is next read
\* (line 74), so its old value is dropped here.
RetrySleepDone ==
    /\ pc = "sleep"
    /\ delay' = NextDelay(config, delay)
    /\ current_delay' = 0
    /\ IF attempt + 1 <= config.max_attempts
          THEN /\ attempt' = attempt + 1
               /\ pc' = "attempt"
               /\ ret' = ret
          ELSE /\ attempt' = attempt
               /\ pc' = "done"
               /\ ret' = AfterLoop(last_exception)
    /\ UNCHANGED <<config, last_exception, history, sleeps, log>>

----------------------------------------------------------------------------
(* lib/retry.py: calls of retry_async by several tasks of one event loop *)

\* QUICK_RETRY preset (0.5 s = 5, 5.0 s = 50); jitter and the retryable
\* classes keep their defaults
QUICK_RETRY ==
    [max_attempts |-> 3, initial_delay |-> 5, max_delay |-> 50,
     backoff_factor |-> 2, jitter |-> TRUE,
     retryable_exceptions |-> <<"Exception">>]

\* the module-level configuration object that the tasks of this model share
Presets == [QUICK_RETRY |-> QUICK_RETRY]

Tasks == 1..NumTasks

TaskOutcomes(n) == {Returned("r1"), Raised("RetryableError", n, "fail")}

\* a sleep that holds the thread of the event loop, as time.sleep does
SleepBlocks_Loop(u, t) == u # t

\* `await asyncio.sleep(current_delay)` in task u: whether it keeps task t
\* from running.  The coroutine is suspended and the loop runs the others.
SleepBlocks(u, t) == FALSE

\* the event loop can run task t
Runnable(t) == \A u \in Tasks : SleepBlocks(u, t) => tasks[u].pc # "sleep"

\* a backoff that is stored in the shared configuration object
ConfigAfterBackoff_Stored(cfg, d) == [cfg EXCEPT !.initial_delay = d]

\* `delay *= config.backoff_factor` assigns the local `delay`: the
\* configuration object after the statement
ConfigAfterBackoff(cfg, d) == cfg

IdleTask ==
    [pc |-> "idle", config |-> "", attempt |-> 0, delay |-> 0,
     last_exception |-> None, current_delay |-> 0, history |-> <<>>,
     sleeps |-> 0, ret |-> None, began |-> [u \in Tasks |-> 0]]

TasksIdle ==
    /\ tasks = [t \in Tasks |-> IdleTask]
    /\ presets = Presets

\* Task t calls retry_async(func, config=<the preset called name>): lines
\* 51-55 and the loop header.  `began` notes which wait every task is in.
TaskCall(t, name) ==
    /\ tasks[t].pc = "idle"
    /\ Runnable(t)
    /\ tasks' = [tasks EXCEPT ![t] =
            [@ EXCEPT !.pc = "attempt", !.config = name, !.attempt = 1,
                      !.delay = presets[name].initial_delay,
                      !.began = [u \in Tasks |->
                                   IF tasks[u].pc = "sleep"
                                   THEN tasks[u].sleeps ELSE 0]]]
    /\ UNCHANGED presets

\* One pass of the loop body of task t up to its next await; lines 58-87
TaskAttempt(t, out) ==
    /\ tasks[t].pc = "attempt"
    /\ Runnable(t)
    /\ LET self == tasks[t]
           cfg == presets[self.config]
           h == Append(self.history, out)
       IN  IF out.kind = "return"
           THEN tasks' = [tasks EXCEPT ![t] =
                    [self EXCEPT !.history = h, !.ret = ReturnValue(out),
                                 !.pc = "done"]]
           ELSE IF ~IsRetryable(cfg, out)
           THEN tasks' = [tasks EXCEPT ![t] =
                    [self EXCEPT !.history = h, !.ret = out, !.pc = "done"]]
           ELSE IF IsLastAttempt(cfg, self.attempt)
           THEN tasks' = [tasks EXCEPT ![t] =
                    [self EXCEPT !.history = h, !.last_exception = out,
                                 !.ret = Reraised(h), !.pc = "done"]]
           ELSE \E cd \in SleepDelays(cfg, self.delay) :
                    tasks' = [tasks EXCEPT ![t] =
                        [self EXCEPT !.history = h, !.last_exception = out,
                                     !.current_delay = cd,
                                     !.sleeps = self.sleeps + 1,
                                     !.pc = "sleep"]]
    /\ UNCHANGED presets

\* asyncio.sleep returns in task t: line 90, then the loop header
TaskSleepDone(t) ==
    /\ tasks[t].pc = "sleep"
    /\ Runnable(t)
    /\ LET self == tasks[t]
           cfg == presets[self.config]
           d == NextDelay(cfg, self.delay)
       IN  /\ presets' = [presets EXCEPT ![self.config] = ConfigAfterBackoff(cfg, d)]
           /\ tasks' = [tasks EXCEPT ![t] =
                 IF self.attempt + 1 <= cfg.max_attempts
                 THEN [self EXCEPT !.delay = d, !.current_delay = 0,
                                   !.attempt = self.attempt + 1,
                                   !.pc = "attempt"]
                 ELSE [self EXCEPT !.delay = d, !.current_delay = 0,
                                   !.ret = self.last_exception,
                                   !.pc = "done"]]

----------------------------------------------------------------------------
(* Text: Python str as a sequence of one-character strings *)

UpperCase ==
    <<"A", "B", "C", "D", "E", "F", "G", "H", "I", "J", "K", "L", "M", "N",
      "O", "P", "Q", "R", "S", "T", "U", "V", "W", "X", "Y", "Z">>

LowerCase ==
    <<"a", "b", "c", "d", "e", "f", "g", "h", "i", "j", "k", "l", "m", "n",
      "o", "p", "q", "r", "s", "t", "u", "v", "w", "x", "y", "z">>

Digits == <<"0", "1", "2", "3", "4", "5", "6", "7", "8", "9">>

Range(f) == {f[i] : i \in DOMAIN f}

\* the characters str.strip() and str.split() treat as white space
Whitespace == {" ", "\t", "\n", "\r"}

\* str.lower()
LowerOf ==
    [c \in Range(UpperCase) |->
        LowerCase[CHOOSE i \in DOMAIN UpperCase : UpperCase[i] = c]]
LowerChar(c) == IF c \in DOMAIN LowerOf THEN LowerOf[c] ELSE c
Lower(s) == [i \in DOMAIN s |-> LowerChar(s[i])]

SetMin(S) == CHOOSE x \in S : \A y \in S : x <= y

\* str.strip(): the index of the first character kept, from i on, and of
\* the last character kept, from j down
RECURSIVE FirstKept(_, _)
FirstKept(s, i) ==
    IF i <= Len(s) /\ s[i] \in Whitespace THEN FirstKept(s, i + 1) ELSE i

RECURSIVE LastKept(_, _)
LastKept(s, j) ==
    IF j >= 1 /\ s[j] \in Whitespace THEN LastKept(s, j - 1) ELSE j

Strip(s) == SubSeq(s, FirstKept(s, 1), LastKept(s, Len(s)))

\* set(str.split()): the maximal runs of characters that are not white space
SplitWords(s) ==
    LET n == Len(s)
        starts == {i \in 1..n : s[i] \notin Whitespace
                                 /\ (i = 1 \/ s[i - 1] \in Whitespace)}
        ends == {i \in 1..n : s[i] \notin Whitespace
                               /\ (i = n \/ s[i + 1] \in Whitespace)}
    IN  {SubSeq(s, i, SetMin({j \in ends : j >= i})) : i \in starts}

\* s.startswith(p)
StartsWith(s, p) == Len(s) >= Len(p) /\ SubSeq(s, 1, Len(p)) = p

----------------------------------------------------------------------------
(* Python and JSON values that reach verify_proof from the classifier *)

PyNone == [t |-> "none"]
PyBool(b) == [t |-> "bool", b |-> b]
PyInt(n) == [t |-> "int", n |-> n]
PyStr(s) == [t |-> "str", s |-> s]
PyText(chars) == [t |-> "text", chars |-> chars]
PyList == [t |-> "list"]
Missing == [t |-> "missing"]

\* bool(x); the list of this model is not empty
Truthy(x) ==
    CASE x.t = "none" -> FALSE
      [] x.t = "bool" -> x.b
      [] x.t = "int"  -> x.n # 0
      [] x.t = "str"  -> x.s # ""
      [] x.t = "text" -> Len(x.chars) > 0
      [] x.t = "list" -> TRUE

\* dict.get(key, default)
Get(value, default) == IF value = Missing THEN default ELSE value

\* int(): truncation toward zero of a / b, b > 0
TruncDiv(a, b) == IF a >= 0 THEN a \div b ELSE -((-a) \div b)

\* a confidence of the wrong type replaced by the default of 50
ThirtyPercent_Default(ai_confidence) ==
    IF ai_confidence.t = "int" THEN PyInt(TruncDiv(3 * ai_confidence.n, 10))
    ELSE PyInt(15)

\* `int(ai_confidence * 0.3)`; None when the product raises TypeError
ThirtyPercent(ai_confidence) ==
    CASE ai_confidence.t = "int"  -> PyInt(TruncDiv(3 * ai_confidence.n, 10))
      [] ai_confidence.t = "bool" -> PyInt(0)
      [] OTHER -> PyNone

----------------------------------------------------------------------------
(* api/verify.py *)

\* VALID_GOALS: goal id -> display name
VALID_GOALS ==
    [run_5km |-> <<"R", "u", "n", " ", "5", "k", "m">>,
     read_20_pages |-> <<"R", "e", "a", "d", " ", "2", "0", " ", "p", "a", "g", "e", "s">>,
     meditate_10min |-> <<"M", "e", "d", "i", "t", "a", "t", "e", " ", "1", "0", " ",
                          "m", "i", "n", "u", "t", "e", "s">>,
     make_sketch |-> <<"M", "a", "k", "e", " ", "a", " ", "s", "k", "e", "t", "c", "h">>,
     custom |-> <<"C", "u", "s", "t", "o", "m", " ", "g", "o", "a", "l">>]

MIN_REFLECTION_LENGTH == 20
CONFIDENCE_THRESHOLD_PASS == 70
CONFIDENCE_THRESHOLD_SECOND_PHOTO == 60

\* points of heuristic_verification and of ai_vision_verification
GoalPoints == 30
MaxLengthBonus == 30
CharsPerPoint == 10
ImagePoints == 20
KeywordPoints == 20
KeywordPenalty == 10
ImplausiblePenalty == 20
MaxConfidence == 100

\* the media types the pattern of validate_data_url accepts
ImageTypes ==
    {<<"p", "n", "g">>, <<"j", "p", "e", "g">>, <<"j", "p", "g">>,
     <<"g", "i", "f">>, <<"w", "e", "b", "p">>}

DataImagePrefix == <<"d", "a", "t", "a", ":", "i", "m", "a", "g", "e", "/">>
Base64Marker == <<";", "b", "a", "s", "e", "6", "4", ",">>

\* [A-Za-z0-9+/=]
Base64Chars ==
    Range(UpperCase) \cup Range(LowerCase) \cup Range(Digits) \cup {"+", "/", "="}

\* group(2) of the match of
\*   ^data:image/(png|jpeg|jpg|gif|webp);base64,([A-Za-z0-9+/=]+)$
\* or None when the pattern does not match; `$` also matches before one
\* final newline
DataUrlBody(url) ==
    LET heads == {DataImagePrefix \o t \o Base64Marker : t \in ImageTypes}
        hit == {h \in heads : StartsWith(url, h)}
    IN  IF hit = {} THEN None
        ELSE LET h == CHOOSE x \in hit : TRUE
                 rest == SubSeq(url, Len(h) + 1, Len(url))
                 data == IF Len(rest) > 0 /\ rest[Len(rest)] = "\n"
                         THEN SubSeq(rest, 1, Len(rest) - 1) ELSE rest
             IN  IF Len(data) >= 1 /\ \A i \in DOMAIN data : data[i] \in Base64Chars
                 THEN data ELSE None

\* base64.b64decode(data, validate=True) does not raise: whole groups of
\* four characters, `=` only as one or two final padding characters
\* (inputs with padding after a whole group are not used in this model)
Base64Decodes(data) ==
    LET n == Len(data)
        pads == Cardinality({i \in DOMAIN data : data[i] = "="})
    IN  /\ n % 4 = 0
        /\ pads <= 2
        /\ \A i \in DOMAIN data : data[i] = "=" => i > n - pads

\* validate_data_url
validate_data_url(data_url) ==
    /\ data_url # <<>>
    /\ DataUrlBody(data_url) # None
    /\ Base64Decodes(DataUrlBody(data_url))

\* a length bonus without its cap
LengthBonus_Uncapped(reflection_length) == reflection_length \div CharsPerPoint

\* `length_bonus = min(30, (reflection_length // 10))`
LengthBonus(reflection_length) ==
    Min(MaxLengthBonus, reflection_length \div CharsPerPoint)

\* `goal_name = VALID_GOALS.get(goal_id, "").lower()`
GoalNameLower(goal_id) ==
    IF goal_id \in DOMAIN VALID_GOALS THEN Lower(VALID_GOALS[goal_id]) ELSE <<>>

\* keywords compared with the words of the reflection as typed
KeywordsMatch_CaseSensitive(goal_id, reflection) ==
    SplitWords(GoalNameLower(goal_id)) \cap SplitWords(reflection) # {}

\* `goal_keywords & reflection_words` is not empty
KeywordsMatch(goal_id, reflection) ==
    \E goal_name \in {GoalNameLower(goal_id)} :
        \E reflection_lower \in {Lower(reflection)} :
            SplitWords(goal_name) \cap SplitWords(reflection_lower) # {}

\* `VALID_GOALS.get(body.goalId)`
GoalNameOf(goal_id) ==
    IF goal_id \in DOMAIN VALID_GOALS THEN PyText(VALID_GOALS[goal_id]) ELSE PyNone

\* no penalty at all
Penalised_Free(confidence) == confidence

\* a penalty without the floor
Penalised_NoFloor(confidence) == confidence - KeywordPenalty

\* `confidence = max(0, confidence - 10)`
Penalised(confidence) == Max(0, confidence - KeywordPenalty)

\* a minimum that must be exceeded
SufficientReflection_Exclusive(reflection_length) ==
    reflection_length > MIN_REFLECTION_LENGTH

\* the else branch of `if reflection_length < MIN_REFLECTION_LENGTH`
SufficientReflection(reflection_length) ==
    ~(reflection_length < MIN_REFLECTION_LENGTH)

\* any check instead of all of them
AllChecks_Any(validGoal, sufficientReflection, validImage) ==
    validGoal \/ sufficientReflection \/ validImage

\* `all([checks.validGoal, checks.sufficientReflection, checks.validImage])`
AllChecks(validGoal, sufficientReflection, validImage) ==
    validGoal /\ sufficientReflection /\ validImage

\* the one element of a set of one element
Only(S) == CHOOSE x \in S : TRUE

\* what heuristic_verification finds out about its arguments
Findings(goal_id, reflection, image_data_url) ==
    [validGoal |-> goal_id \in DOMAIN VALID_GOALS,
     reflection_length |-> Len(Strip(reflection)),
     validImage |-> validate_data_url(image_data_url),
     keywords |-> KeywordsMatch(goal_id, reflection)]

\* the checks, the score, the reasons and the result of heuristic_verification
\* for findings f, and the values confidence takes on the way
Scored(goal_id, f) ==
    LET sufficientReflection == SufficientReflection(f.reflection_length)
        c0 == 0
        c1 == IF f.validGoal THEN c0 + GoalPoints ELSE c0
        c2 == IF sufficientReflection
              THEN c1 + LengthBonus(f.reflection_length) ELSE c1
        c3 == IF f.validImage THEN c2 + ImagePoints ELSE c2
        c4 == IF f.keywords THEN c3 + KeywordPoints ELSE Penalised(c3)
        reasons ==
            (IF f.validGoal THEN <<>>
             ELSE <<[what |-> "Invalid goal ID", goal_id |-> goal_id]>>)
            \o (IF sufficientReflection THEN <<>>
                ELSE <<[what |-> "Reflection too short",
                        chars |-> f.reflection_length,
                        minimum |-> MIN_REFLECTION_LENGTH]>>)
            \o (IF f.validImage THEN <<>>
                ELSE <<[what |-> "Invalid image data URL format"]>>)
    IN  [verified |-> AllChecks(f.validGoal, sufficientReflection, f.validImage),
         confidence |-> c4,
         reason |-> IF reasons # <<>> THEN [joined |-> reasons]
                    ELSE [text |-> "All heuristic checks passed"],
         checks |-> [validGoal |-> f.validGoal,
                     sufficientReflection |-> sufficientReflection,
                     validImage |-> f.validImage,
                     aiVerified |-> PyNone],
         scores |-> <<c0, c1, c2, c3, c4>>]

\* heuristic_verification: (verified, confidence, reason, checks)
heuristic_verification(goal_id, reflection, image_data_url) ==
    Only({Scored(goal_id, f) : f \in {Findings(goal_id, reflection, image_data_url)}})

----------------------------------------------------------------------------
(* api/verify.py: the classifier stage and the response *)

\* What the call of the classifier can do: no API key, an exception (timeout,
\* connection error, missing response fields), a status other than 200,
\* content that is not JSON, JSON that is not an object, or a JSON object
\* with any of the three fields present or absent, of any type.
VerdictValues ==
    [plausible : {Missing, PyBool(TRUE), PyBool(FALSE), PyStr("no")},
     confidence : {Missing, PyInt(0), PyInt(29), PyInt(100), PyInt(1000),
                   PyInt(-1000), PyStr("high")},
     feedback : {Missing, PyStr("Looks genuine"), PyStr(""), PyList}]

ClassifierOutcomes ==
    {[kind |-> "no_key"], [kind |-> "exception"], [kind |-> "status", code |-> 500],
     [kind |-> "not_json"], [kind |-> "not_object"]}
    \cup {[kind |-> "verdict", result |-> r] : r \in VerdictValues}

\* ai_vision_verification: (confidence_adjustment, feedback) for what the
\* classifier call did
ai_vision_verification(o) ==
    CASE o.kind = "no_key" ->
            [adjustment |-> 0,
             feedback |-> PyStr("AI verification not configured (no API key)")]
      [] o.kind = "status" ->
            [adjustment |-> 0, feedback |-> PyStr("AI verification failed: HTTP")]
      [] o.kind = "not_json" ->
            [adjustment |-> 0, feedback |-> PyStr("AI feedback:")]
      [] o.kind \in {"exception", "not_object"} ->
            [adjustment |-> 0, feedback |-> PyStr("AI verification unavailable:")]
      [] o.kind = "verdict" ->
            LET plausible == Get(o.result.plausible, PyBool(FALSE))
                ai_confidence == Get(o.result.confidence, PyInt(50))
                feedback == Get(o.result.feedback, PyStr("AI verification completed"))
            IN  IF Truthy(plausible)
                THEN IF ThirtyPercent(ai_confidence) = PyNone
                     THEN [adjustment |-> 0,
                           feedback |-> PyStr("AI verification unavailable:")]
                     ELSE [adjustment |-> ThirtyPercent(ai_confidence).n,
                           feedback |-> feedback]
                ELSE [adjustment |-> -ImplausiblePenalty, feedback |-> feedback]

\* a score that is clamped from below only
Clamp_NoCeiling(c) == Max(0, c)

\* `max(0, min(100, confidence + ai_adjustment))`
Clamp(c) == Max(0, Min(MaxConfidence, c))

\* passing on the score alone
FinalVerified_ScoreOnly(verified, confidence) ==
    confidence >= CONFIDENCE_THRESHOLD_PASS

\* `final_verified = verified and confidence >= CONFIDENCE_THRESHOLD_PASS`
FinalVerified(verified, confidence) ==
    verified /\ confidence >= CONFIDENCE_THRESHOLD_PASS

\* a second photo asked for whether or not one was sent
NeedsSecondPhoto_IgnoresSecond(verified, second, confidence) ==
    /\ verified
    /\ CONFIDENCE_THRESHOLD_SECOND_PHOTO <= confidence
    /\ confidence < CONFIDENCE_THRESHOLD_PASS

\* `needs_second_photo = verified and not body.secondImageDataUrl and
\*  CONFIDENCE_THRESHOLD_SECOND_PHOTO <= confidence < CONFIDENCE_THRESHOLD_PASS`
NeedsSecondPhoto(verified, second, confidence) ==
    /\ verified
    /\ ~Truthy(second)
    /\ CONFIDENCE_THRESHOLD_SECOND_PHOTO <= confidence
    /\ confidence < CONFIDENCE_THRESHOLD_PASS

\* the generated message whatever the feedback is
Or_Message(feedback, message) == message

\* `feedback or <message>`
Or(feedback, message) == IF Truthy(feedback) THEN feedback ELSE message

\* VerifyResponse(...): the model validates its fields; a confidence outside
\* 0..100 or a feedback that is not a string raises a validation error
VerifyResponse(fields) ==
    IF fields.confidence \in 0..MaxConfidence /\ fields.feedback.t = "str"
    THEN [kind |-> "response"] @@ fields
    ELSE [kind |-> "error", what |-> "ValidationError"]

\* verify_proof from Step 3 on: the decision, the feedback and the response
Respond(b, h, confidence, feedback0, checks) ==
    LET final_verified == FinalVerified(h.verified, confidence)
        needs_second_photo ==
            NeedsSecondPhoto(h.verified, b.secondImageDataUrl, confidence)
        feedback ==
            IF final_verified
            THEN Or(feedback0, [t |-> "str", s |-> "Proof verified!",
                                goal |-> GoalNameOf(b.goalId)])
            ELSE IF needs_second_photo
            THEN [t |-> "str", s |-> "Verification uncertain", confidence |-> confidence]
            ELSE IF ~h.verified
            THEN [t |-> "str", s |-> "Verification failed:", reason |-> h.reason]
            ELSE Or(feedback0, [t |-> "str", s |-> "Confidence too low",
                                confidence |-> confidence])
    IN  VerifyResponse(
            [verified |-> final_verified,
             confidence |-> confidence,
             reason |-> IF ~final_verified THEN h.reason ELSE [text |-> "Verified"],
             feedback |-> feedback,
             needsSecondPhoto |-> needs_second_photo,
             checks |-> checks])

\* the first image alone
ClassifierImages_First(image_data_url, second_image_data_url) == <<image_data_url>>

\* the images ai_vision_verification sends to the classifier
ClassifierImages(image_data_url, second_image_data_url) ==
    <<image_data_url>>
    \o (IF Truthy(second_image_data_url) THEN <<second_image_data_url.chars>> ELSE <<>>)

VerifyIdle ==
    /\ vpc = "idle"
    /\ body = None
    /\ heur = None
    /\ scores = <<>>
    /\ ai_calls = <<>>
    /\ classified = None
    /\ ai_adjustment = None
    /\ ai_feedback = None
    /\ response = None

\* verify_proof up to its await: Step 1, and, when the heuristics fail, the
\* rest of the handler (lines 259-309)
VerifyProof(b) ==
    /\ vpc = "idle"
    /\ \E h \in {heuristic_verification(b.goalId, b.reflection, b.imageDataUrl)} :
           /\ body' = b
           /\ scores' = h.scores
           /\ heur' = [verified |-> h.verified, confidence |-> h.confidence,
                       reason |-> h.reason, checks |-> h.checks]
           /\ IF h.verified
                 THEN /\ vpc' = "classify"
                      /\ ai_calls' = Append(ai_calls,
                            [goal_id |-> b.goalId,
                             images |-> ClassifierImages(b.imageDataUrl,
                                                         b.secondImageDataUrl)])
                      /\ response' = response
                 ELSE /\ vpc' = "done"
                      /\ ai_calls' = ai_calls
                      /\ response' =
                            Respond(b, h, h.confidence,
                                    [t |-> "str", s |-> "reason", reason |-> h.reason],
                                    h.checks)
    /\ UNCHANGED <<classified, ai_adjustment, ai_feedback>>

\* ai_vision_verification returns: the rest of Step 2, Step 3 and the
\* response (lines 275-309)
ClassifierReturns(o) ==
    /\ vpc = "classify"
    /\ \E r \in {ai_vision_verification(o)} :
       LET confidence == Clamp(heur.confidence + r.adjustment)
           checks == [heur.checks EXCEPT !.aiVerified = PyBool(r.adjustment > 0)]
       IN  /\ scores' = Append(scores, confidence)
           /\ heur' = [heur EXCEPT !.confidence = confidence, !.checks = checks]
           /\ response' = Respond(body, heur, confidence, r.feedback, checks)
           /\ ai_adjustment' = r.adjustment
           /\ ai_feedback' = r.feedback
    /\ classified' = o
    /\ vpc' = "done"
    /\ UNCHANGED <<body, ai_calls>>

----------------------------------------------------------------------------
(* api/qrng.py *)

DEFAULT_SEED_SIZE == 32
MAX_SEED_SIZE == 128
MIN_SEED_SIZE == 16

\* the sizes the Query validation lets through, at its ends and its default
SeedSizes == {MIN_SEED_SIZE, DEFAULT_SEED_SIZE, MAX_SEED_SIZE}

\* a Python bytes object, with where its content came from
Bytes(origin, data) == [t |-> "bytes", origin |-> origin, data |-> data]

HexDigits ==
    <<"0", "1", "2", "3", "4", "5", "6", "7", "8", "9", "a", "b", "c", "d", "e", "f">>

\* bytes.hex(): two digits per byte, high digit first
Hex(data) ==
    [i \in 1..(2 * Len(data)) |->
        IF i % 2 = 1 THEN HexDigits[(data[(i + 1) \div 2] \div 16) + 1]
        ELSE HexDigits[(data[i \div 2] % 16) + 1]]

\* what the endpoint can answer to a request for n values: nothing in time,
\* or a status with a body that is not JSON or is a JSON object with or
\* without a success indicator and with fewer, exactly or more than n values,
\* one array holding a value that is no byte; a status other than 200 may
\* come with a well-formed body too
Repeat(v, m) == [i \in 1..m |-> v]

EndpointData(n) ==
    {Repeat(v, m) : v \in {0, 255}, m \in {n - 1, n, n + 1}}
    \cup {Repeat(256, n)}

EndpointResponses(n) ==
    {[kind |-> "timeout"]}
    \cup {[kind |-> "http", status |-> st, json |-> [t |-> "invalid"]] : st \in {200, 500}}
    \cup {[kind |-> "http", status |-> 500,
           json |-> [t |-> "object", success |-> PyBool(TRUE), data |-> Repeat(171, n)]]}
    \cup {[kind |-> "http", status |-> 200,
           json |-> [t |-> "object", success |-> ok, data |-> d]] :
            ok \in {PyBool(TRUE), PyBool(FALSE), Missing},
            d \in EndpointData(n)}

\* a _fetch_quantum_bytes that does not count the values it got
FetchQuantumBytes_NoCount(resp, num_bytes, n) ==
    IF resp.kind = "timeout" THEN Raised("TimeoutException", n, "timeout")
    ELSE IF resp.status # 200 THEN Raised("Exception", n, "QRNG API returned status")
    ELSE IF resp.json.t = "invalid" THEN Raised("JSONDecodeError", n, "invalid JSON")
    ELSE IF ~Truthy(Get(resp.json.success, PyNone))
    THEN Raised("Exception", n, "QRNG API returned success=false")
    ELSE IF \E i \in DOMAIN resp.json.data : resp.json.data[i] \notin 0..255
    THEN Raised("ValueError", n, "bytes must be in range(0, 256)")
    ELSE Returned(Bytes("endpoint", resp.json.data))

\* _fetch_quantum_bytes(num_bytes), as invocation n of func, when the
\* endpoint answers resp
FetchQuantumBytes(resp, num_bytes, n) ==
    IF resp.kind = "timeout" THEN Raised("TimeoutException", n, "timeout")
    ELSE IF resp.status # 200 THEN Raised("Exception", n, "QRNG API returned status")
    ELSE IF resp.json.t = "invalid" THEN Raised("JSONDecodeError", n, "invalid JSON")
    ELSE IF ~Truthy(Get(resp.json.success, PyNone))
    THEN Raised("Exception", n, "QRNG API returned success=false")
    ELSE IF Len(resp.json.data) # num_bytes
    THEN Raised("Exception", n, "QRNG API returned wrong number of bytes")
    ELSE IF \E i \in DOMAIN resp.json.data : resp.json.data[i] \notin 0..255
    THEN Raised("ValueError", n, "bytes must be in range(0, 256)")
    ELSE Returned(Bytes("endpoint", resp.json.data))

\* a get_quantum_random_bytes without its except clause
GetQuantumRandomBytes_NoCatch(r) == r

\* get_quantum_random_bytes: what retry_async ended with becomes the bytes,
\* or None after `except Exception`; anything else goes on to the caller
GetQuantumRandomBytes(r) ==
    IF r.kind = "return" THEN Returned(r.value)
    ELSE IF "Exception" \in Bases(r.cls) THEN Returned(PyNone)
    ELSE r

\* a generator of 32 bytes whatever the size asked for
PseudoRandomBytes_Default(num_bytes) ==
    {Bytes("local", Repeat(v, DEFAULT_SEED_SIZE)) : v \in {0, 90, 255}}

\* get_pseudo_random_bytes: secrets.token_bytes(num_bytes) gives num_bytes
\* bytes of any value
PseudoRandomBytes(num_bytes) ==
    {Bytes("local", Repeat(v, num_bytes)) : v \in {0, 90, 255}}

\* lines 127-142: the bytes used, and the response
QuantumSeedResponse(quantum_bytes, pseudo_bytes, n, ts) ==
    IF quantum_bytes # PyNone
    THEN [bytes |-> quantum_bytes,
          response |-> [kind |-> "response", seed |-> Hex(quantum_bytes.data),
                        source |-> "quantum", timestamp |-> ts, size |-> n]]
    ELSE [bytes |-> pseudo_bytes,
          response |-> [kind |-> "response", seed |-> Hex(pseudo_bytes.data),
                        source |-> "pseudo", timestamp |-> ts, size |-> n]]

SeedIdle ==
    /\ spc = "idle"
    /\ size = 0
    /\ seed_bytes = None
    /\ seed_response = None
    /\ answer = None
    /\ clock = 0
    /\ timestamp = None

\* generate_quantum_seed once retry_async has ended as r: the rest of
\* get_quantum_random_bytes and lines 127-142
SeedRespond(r) ==
    /\ spc' = "done"
    /\ size' = size
    /\ \E q \in {GetQuantumRandomBytes(r)} :
          IF q.kind = "raise"
          THEN /\ seed_bytes' = seed_bytes
               /\ seed_response' = [kind |-> "error", raised |-> q]
          ELSE \E pseudo_bytes \in PseudoRandomBytes(size) :
                 \E made \in {QuantumSeedResponse(q.value, pseudo_bytes, size,
                                                   timestamp)} :
                    /\ seed_bytes' = made.bytes
                    /\ seed_response' = made.response

\* generate_quantum_seed is called with a validated size: line 122 reads the
\* clock, then up to the first await inside
\* retry_async(_fetch_quantum_bytes, size, config=NETWORK_RETRY)
GenerateQuantumSeed(n) ==
    /\ spc = "idle"
    /\ spc' = "fetching"
    /\ size' = n
    /\ timestamp' = clock
    /\ RetryCall(NETWORK_RETRY)
    /\ UNCHANGED <<seed_bytes, seed_response, answer, clock>>

\* one attempt at the endpoint, which answers resp, and whatever follows it
\* without an await
SeedAttempt(resp) ==
    /\ spc = "fetching"
    /\ answer' = resp
    /\ clock' = clock + 1
    /\ RetryAttempt(FetchQuantumBytes(resp, size, calls + 1))
    /\ IF pc' = "done" THEN SeedRespond(ret')
       ELSE UNCHANGED <<spc, size, seed_bytes, seed_response>>
    /\ UNCHANGED timestamp

\* the wait between two attempts is over
SeedSleepDone ==
    /\ spc = "fetching"
    /\ answer' = None
    /\ clock' = clock + 1
    /\ RetrySleepDone
    /\ IF pc' = "done" THEN SeedRespond(ret')
       ELSE UNCHANGED <<spc, size, seed_bytes, seed_response>>
    /\ UNCHANGED timestamp

----------------------------------------------------------------------------
(* api/ipfs.py *)

\* `MAX_FILE_SIZE = 10 * 1024 * 1024`
MAX_FILE_SIZE == 10 * 1024 * 1024

\* the base64 alphabet, in the order of the values 0..63
B64Alphabet == UpperCase \o LowerCase \o Digits \o <<"+", "/">>

B64Value(c) == (CHOOSE i \in DOMAIN B64Alphabet : B64Alphabet[i] = c) - 1

\* binascii.a2b_base64 without strict mode, from character i of s on, in
\* state st: a character outside the alphabet is skipped, a pad character
\* that completes a group ends the decoding, and a group left incomplete at
\* the end is an error
RECURSIVE A2bBase64(_, _, _)
A2bBase64(s, i, st) ==
    IF i > Len(s)
    THEN IF st.quad_pos = 0 THEN [kind |-> "bytes", data |-> st.out]
         ELSE [kind |-> "error",
               what |-> IF st.quad_pos = 1 THEN "Invalid base64-encoded string"
                        ELSE "Incorrect padding"]
    ELSE IF s[i] = "="
    THEN IF st.quad_pos >= 2 /\ st.quad_pos + st.pads + 1 >= 4
         THEN [kind |-> "bytes", data |-> st.out]
         ELSE A2bBase64(s, i + 1,
                        IF st.quad_pos >= 2 THEN [st EXCEPT !.pads = @ + 1] ELSE st)
    ELSE IF s[i] \notin Range(B64Alphabet)
    THEN A2bBase64(s, i + 1, st)
    ELSE LET v == B64Value(s[i])
         IN  A2bBase64(s, i + 1,
                CASE st.quad_pos = 0 ->
                        [quad_pos |-> 1, pads |-> 0, leftchar |-> v, out |-> st.out]
                  [] st.quad_pos = 1 ->
                        [quad_pos |-> 2, pads |-> 0, leftchar |-> v % 16,
                         out |-> Append(st.out, st.leftchar * 4 + v \div 16)]
                  [] st.quad_pos = 2 ->
                        [quad_pos |-> 3, pads |-> 0, leftchar |-> v % 4,
                         out |-> Append(st.out, st.leftchar * 16 + v \div 4)]
                  [] st.quad_pos = 3 ->
                        [quad_pos |-> 0, pads |-> 0, leftchar |-> 0,
                         out |-> Append(st.out, st.leftchar * 64 + v)])

\* The data of a PinRequest: `groups` times the four characters AAAA, then
\* the characters of `tail`.  The bytes it decodes to: `lead` zero bytes, then
\* the bytes of `data`.
PinData(groups, tail) == [groups |-> groups, tail |-> tail]
Payload(lead, data) == [kind |-> "bytes", lead |-> lead, data |-> data]

\* len(data_bytes)
Size(payload) == payload.lead + Len(payload.data)

\* `base64.b64decode(request.data)`: each group AAAA gives three zero bytes
\* and leaves the decoder between two groups
B64Decode(d) ==
    LET r == A2bBase64(d.tail, 1,
                       [quad_pos |-> 0, pads |-> 0, leftchar |-> 0, out |-> <<>>])
    IN  IF r.kind = "error" THEN r ELSE Payload(3 * d.groups, r.data)

\* a limit that the largest payload allowed already exceeds
TooLarge_Inclusive(payload) == Size(payload) >= MAX_FILE_SIZE

\* `if len(data_bytes) > MAX_FILE_SIZE`
TooLarge(payload) == Size(payload) > MAX_FILE_SIZE

\* raise HTTPException(status_code=..., detail=...)
HTTPException(status_code, detail) ==
    [kind |-> "error", status |-> status_code, detail |-> detail]

\* What the IPFS node does with a request: no answer in time, no connection,
\* or a status with a body
StoreProbes ==
    {[kind |-> "status", code |-> 200], [kind |-> "status", code |-> 500],
     [kind |-> "timeout"], [kind |-> "exception"]}

StoreAddAnswers ==
    {[kind |-> "timeout"], [kind |-> "exception"],
     [kind |-> "status", code |-> 500, json |-> [t |-> "invalid"]],
     [kind |-> "status", code |-> 200, json |-> [t |-> "invalid"]],
     [kind |-> "status", code |-> 200, json |-> [t |-> "object", Hash |-> Missing]],
     [kind |-> "status", code |-> 200,
      json |-> [t |-> "object", Hash |-> PyStr("QmHash")]]}

\* a probe that takes any answer of the node for availability
is_ipfs_available_AnyStatus(probe) == probe.kind = "status"

\* is_ipfs_available, when the node answers the probe with `probe`
is_ipfs_available(probe) == probe.kind = "status" /\ probe.code = 200

\* pin_to_ipfs, when the node answers the add request with `a`: the CID, or
\* the HTTPException raised
pin_to_ipfs(a) ==
    IF a.kind = "timeout"
    THEN HTTPException(503, "IPFS node timeout")
    ELSE IF a.kind = "exception"
    THEN HTTPException(503, "IPFS error")
    ELSE IF a.code # 200
    THEN HTTPException(503, "IPFS error")
    ELSE IF a.json.t = "invalid" \/ a.json.Hash = Missing
    THEN HTTPException(503, "IPFS error")
    ELSE [kind |-> "cid", cid |-> a.json.Hash]

\* PinResponse(cid=cid, uri=f"ipfs://{cid}", size=len(data_bytes))
PinResponse(cid, payload) ==
    [kind |-> "response", status |-> 200, cid |-> cid,
     uri |-> <<"ipfs://", cid>>, size |-> Size(payload)]

PinIdle ==
    /\ ipc = "idle"
    /\ pin_request = None
    /\ data_bytes = None
    /\ store_calls = <<>>
    /\ pin_response = None
    /\ store_answers = <<>>

\* pin_encrypted_data up to its await: the decoding, the size limit and the
\* availability probe, which the node answers with `probe` (lines 158-182)
PinEncryptedData(d, probe) ==
    /\ ipc = "idle"
    /\ pin_request' = [data |-> d]
    /\ \E decoded \in {B64Decode(d)} :
          IF decoded.kind = "error"
          THEN /\ pin_response' = HTTPException(400, "Invalid base64 data")
               /\ ipc' = "done"
               /\ UNCHANGED <<data_bytes, store_calls, store_answers>>
          ELSE /\ data_bytes' = decoded
               /\ IF TooLarge(decoded)
                  THEN /\ pin_response' = HTTPException(413, "Data exceeds max size")
                       /\ ipc' = "done"
                       /\ UNCHANGED <<store_calls, store_answers>>
                  ELSE IF ~is_ipfs_available(probe)
                  THEN /\ pin_response' = HTTPException(503, "IPFS node not available")
                       /\ ipc' = "done"
                       /\ store_calls' = Append(store_calls, [op |-> "version"])
                       /\ store_answers' = Append(store_answers, probe)
                  ELSE /\ ipc' = "adding"
                       /\ store_calls' = store_calls \o
                             <<[op |-> "version"], [op |-> "add", file |-> decoded]>>
                       /\ store_answers' = Append(store_answers, probe)
                       /\ UNCHANGED pin_response

\* the add request ends as `a`: the rest of pin_to_ipfs and lines 182-188
PinAddReturns(a) ==
    /\ ipc = "adding"
    /\ ipc' = "done"
    /\ \E r \in {pin_to_ipfs(a)} :
          pin_response' = IF r.kind = "error" THEN r
                          ELSE PinResponse(r.cid, data_bytes)
    /\ store_answers' = Append(store_answers, a)
    /\ UNCHANGED <<pin_request, data_bytes, store_calls>>

\* The routes of the router, in the order of their decorators: the part of
\* the path after /api/ipfs/ is a fixed word or one parameter
Routes ==
    <<[methods |-> {"POST"}, literal |-> TRUE, name |-> "pin",
       endpoint |-> "pin_encrypted_data"],
      [methods |-> {"GET"}, literal |-> FALSE, name |-> "cid",
       endpoint |-> "retrieve_encrypted_data"],
      [methods |-> {"GET"}, literal |-> TRUE, name |-> "health",
       endpoint |-> "ipfs_health"]>>

\* the path of route r matches /api/ipfs/<segment>: a parameter matches any
\* segment
PathMatches(r, segment) == ~r.literal \/ r.name = segment

\* the route taken among those that match: the first one registered
RouteOrder(matching) == SetMin(matching)

\* The router's choice for `method /api/ipfs/<segment>`: the first route
\* whose path and method match; 405 when only paths match, 404 when none
Dispatch(method, segment) ==
    LET paths == {i \in DOMAIN Routes : PathMatches(Routes[i], segment)}
        full == {i \in paths : method \in Routes[i].methods}
    IN  IF full # {} THEN [kind |-> "endpoint", endpoint |-> Routes[RouteOrder(full)].endpoint]
        ELSE IF paths # {} THEN [kind |-> "error", status |-> 405]
        ELSE [kind |-> "error", status |-> 404]

\* the character of the alphabet for the six-bit value v
B64Char(v) == B64Alphabet[v + 1]

\* base64.b64encode(data).decode(): four characters for every three bytes,
\* the last group padded with `=`
RECURSIVE B64Encode(_)
B64Encode(data) ==
    IF Len(data) = 0 THEN <<>>
    ELSE IF Len(data) = 1
    THEN <<B64Char(data[1] \div 4), B64Char((data[1] % 4) * 16), "=", "=">>
    ELSE IF Len(data) = 2
    THEN <<B64Char(data[1] \div 4),
           B64Char((data[1] % 4) * 16 + data[2] \div 16),
           B64Char((data[2] % 16) * 4), "=">>
    ELSE <<B64Char(data[1] \div 4),
           B64Char((data[1] % 4) * 16 + data[2] \div 16),
           B64Char((data[2] % 16) * 4 + data[3] \div 64),
           B64Char(data[3] % 64)>>
         \o B64Encode(SubSeq(data, 4, Len(data)))

\* what the node holds under the content identifiers of this model
StoredContents ==
    {<<>>, <<65>>, <<65, 66>>, <<65, 66, 67>>, <<0, 255, 16, 131>>,
     <<251, 239, 190, 255, 254>>}

\* What the node does with a cat request
StoreCatAnswers ==
    {[kind |-> "timeout"], [kind |-> "exception"],
     [kind |-> "status", code |-> 404], [kind |-> "status", code |-> 500]}
    \cup {[kind |-> "status", code |-> 200, content |-> c] : c \in StoredContents}

\* a handler that turns every failure into 503, the not-found one included
retrieve_from_ipfs_AllUnavailable(a) ==
    IF a.kind = "status" /\ a.code = 200
    THEN [kind |-> "bytes", data |-> a.content]
    ELSE HTTPException(503, "IPFS error")

\* retrieve_from_ipfs, when the node answers the cat request with `a`: the
\* bytes, or the HTTPException raised
retrieve_from_ipfs(a) ==
    IF a.kind = "timeout"
    THEN HTTPException(503, "IPFS node timeout")
    ELSE IF a.kind = "exception"
    THEN HTTPException(503, "IPFS error")
    ELSE IF a.code = 200
    THEN [kind |-> "bytes", data |-> a.content]
    ELSE IF a.code = 404
    THEN HTTPException(404, "CID not found")
    ELSE HTTPException(503, "IPFS cat failed")

\* RetrieveResponse(data=data_base64, size=len(data_bytes))
RetrieveResponse(content) ==
    [kind |-> "response", status |-> 200, data |-> B64Encode(content),
     size |-> Len(content)]

\* IPFSHealthResponse(ipfs_available=available, ...)
IPFSHealthResponse(available) ==
    [kind |-> "response", status |-> 200, ipfs_available |-> available]

GetIdle ==
    /\ gpc = "idle"
    /\ get_request = None
    /\ handler = None
    /\ get_response = None

\* GET /api/ipfs/<segment>: the router dispatches the request, and the
\* handler runs up to its await; the node answers the probe with `probe`.
\* retrieve_encrypted_data: lines 204-211; ipfs_health: lines 229-235.
IpfsGet(segment, probe) ==
    /\ gpc = "idle"
    /\ get_request' = [method |-> "GET", segment |-> segment]
    /\ \E d \in {Dispatch("GET", segment)} :
          IF d.kind = "error"
          THEN /\ handler' = None
               /\ get_response' = [kind |-> "error", status |-> d.status]
               /\ gpc' = "done"
               /\ UNCHANGED <<store_calls, store_answers>>
          ELSE /\ handler' = d.endpoint
               /\ store_answers' = Append(store_answers, probe)
               /\ IF d.endpoint = "ipfs_health"
                  THEN /\ store_calls' = Append(store_calls, [op |-> "version"])
                       /\ get_response' = IPFSHealthResponse(is_ipfs_available(probe))
                       /\ gpc' = "done"
                  ELSE IF ~is_ipfs_available(probe)
                  THEN /\ store_calls' = Append(store_calls, [op |-> "version"])
                       /\ get_response' = HTTPException(503, "IPFS node not available")
                       /\ gpc' = "done"
                  ELSE /\ store_calls' = store_calls \o
                             <<[op |-> "version"], [op |-> "cat", arg |-> segment]>>
                       /\ gpc' = "fetching"
                       /\ UNCHANGED get_response

\* the cat request ends as `a`: the rest of retrieve_from_ipfs and lines
\* 211-219
CatReturns(a) ==
    /\ gpc = "fetching"
    /\ gpc' = "done"
    /\ \E r \in {retrieve_from_ipfs(a)} :
          get_response' = IF r.kind = "error" THEN r ELSE RetrieveResponse(r.data)
    /\ store_answers' = Append(store_answers, a)
    /\ UNCHANGED <<get_request, handler, store_calls>>

----------------------------------------------------------------------------
(* lib/retry.py: retry_with_exponential_backoff *)

\* a wrapper that builds its configuration without the decorator's arguments
DecoratorConfig_Defaults(p) == RetryConfig

\* the RetryConfig the wrapper builds from the decorator's keyword
\* arguments p, an argument left out taking the default of the signature
DecoratorConfig(p) ==
    LET Arg(name, default) == IF name \in DOMAIN p THEN p[name] ELSE default
    IN  [max_attempts |-> Arg("max_attempts", 3),
         initial_delay |-> Arg("initial_delay", 10),
         max_delay |-> Arg("max_delay", 600),
         backoff_factor |-> Arg("backoff_factor", 2),
         jitter |-> Arg("jitter", TRUE),
         retryable_exceptions |-> Arg("retryable_exceptions", <<"Exception">>)]

\* The keyword arguments given to the decorator in this model (0.1 s = 1):
\* any of the six parameters, the others left out
DecoratorArgs ==
    LET given == [max_attempts : {0, 2}, initial_delay : {1, 50},
                  max_delay : {60}, backoff_factor : {3}, jitter : {FALSE},
                  retryable_exceptions : {<<"RetryableError">>}]
        names == {"max_attempts", "initial_delay", "max_delay",
                  "backoff_factor", "jitter", "retryable_exceptions"}
    IN  {[k \in K |-> g[k]] : g \in given, K \in SUBSET names}

\* the wrapped function is called: the wrapper builds the configuration and
\* awaits retry_async(func, config=config); lines 116-126
DecoratedCall(p) ==
    /\ decorated' = p
    /\ RetryCall(DecoratorConfig(p))

----------------------------------------------------------------------------
(* The requests of this model *)

Filler(n) == [i \in 1..n |-> "x"]

\* reflections: an optional word about running, then filler, with or without
\* white space around, about the minimum length and about the lengths where
\* the length bonus decides; the two reflections of the spec's scenarios and
\* the one of test_verify_suggests_second_photo_on_low_confidence
Reflections ==
    {lead \o word \o Filler(n) \o <<" ">> :
        lead \in {<<>>, <<" ", "\n">>},
        word \in {<<>>, <<"r", "u", "n", " ">>, <<"R", "U", "N", " ">>,
                  <<"r", "u", "n", ".", " ">>},
        n \in {0, 15, 16, 20}}
    \cup {word \o Filler(n) :
            word \in {<<>>, <<"r", "u", "n", " ">>},
            n \in {195, 196, 199, 200, 295, 296, 299, 300, 400}}
    \cup {<<"T", "o", "o", " ", "s", "h", "o", "r", "t">>,
          <<"I", " ", "c", "o", "m", "p", "l", "e", "t", "e", "d", " ", "m", "y",
            " ", "5", "k", "m", " ", "r", "u", "n", " ", "t", "o", "d", "a", "y",
            ".", " ", "I", "t", " ", "w", "a", "s", " ", "c", "h", "a", "l", "l",
            "e", "n", "g", "i", "n", "g", " ", "b", "u", "t", " ", "r", "e", "w",
            "a", "r", "d", "i", "n", "g", ".">>,
          <<"I", " ", "d", "i", "d", " ", "s", "o", "m", "e", "t", "h", "i",
            "n", "g", " ", "t", "o", "d", "a", "y", " ", "b", "u", "t", " ",
            "n", "o", "t", " ", "s", "u", "r", "e", " ", "w", "h", "a", "t",
            " ", "e", "x", "a", "c", "t", "l", "y", " ", "i", "t", " ", "w",
            "a", "s", " ", "a", "b", "o", "u", "t", ".">>}

ImageHead(type) == DataImagePrefix \o type \o Base64Marker

\* image payloads: well formed, and malformed in each way the validation
\* looks at
Images ==
    {ImageHead(<<"p", "n", "g">>) \o <<"i", "V", "B", "O", "R", "w", "=", "=">>,
     ImageHead(<<"j", "p", "e", "g">>) \o <<"/", "9", "j", "+">>,
     ImageHead(<<"p", "n", "g">>) \o <<"A", "A", "A", "A", "\n">>,
     <<>>,
     <<"n", "o", "t", "-", "a", "-", "d", "a", "t", "a", "-", "u", "r", "l">>,
     ImageHead(<<"b", "m", "p">>) \o <<"A", "A", "A", "A">>,
     ImageHead(<<"P", "N", "G">>) \o <<"A", "A", "A", "A">>,
     ImageHead(<<"p", "n", "g">>),
     ImageHead(<<"p", "n", "g">>) \o <<"A", "A", "!", "A">>,
     ImageHead(<<"p", "n", "g">>) \o <<"A", "A", "A">>,
     ImageHead(<<"p", "n", "g">>) \o <<"A", "=", "A", "A">>}

SecondImages ==
    {PyNone, PyText(<<>>),
     PyText(ImageHead(<<"p", "n", "g">>) \o <<"A", "A", "A", "A">>),
     PyText(<<"j", "u", "n", "k">>)}

GoalIds == {"run_5km", "custom", "bogus"}

Requests ==
    [goalId : GoalIds, reflection : Reflections, imageDataUrl : Images,
     secondImageDataUrl : SecondImages]

\* the group counts of payloads of nothing, of one byte less than 10 MiB and
\* of two bytes less than 11 MiB before the tail is counted
PinGroups == {0, 1, (MAX_FILE_SIZE - 1) \div 3, (11 * 1024 * 1024 - 2) \div 3}

\* tails: well-formed ones of zero to three bytes, and ill-formed ones
PinTails ==
    {<<>>,
     <<"Q", "Q", "=", "=">>,
     <<"Q", "U", "I", "=">>,
     <<"Q", "U", "J", "D">>,
     <<"Q", "U", "J", "D", "R", "A", "=", "=">>,
     <<"Q">>,
     <<"Q", "U">>,
     <<"Q", "U", "I">>,
     <<"Q", "U", "=", "J">>,
     <<"Q", "U", "!", "J", "D">>,
     <<"Q", "U", "J", "D", "\n">>,
     <<"Q", "Q", "=", "=", "Q", "U", "J", "D">>,
     <<"Q", "U", "J", "D", "=">>,
     <<"!", "!", "!", "!">>,
     <<"n", "o", "t", "-", "v", "a", "l", "i", "d", "-", "b", "a", "s", "e",
       "6", "4", "!">>}

PinDatas == {PinData(g, t) : g \in PinGroups, t \in PinTails}

\* the last segment of the paths requested with GET: content identifiers,
\* and the names of the two fixed routes
GetSegments == {"QmTest123", "QmHash", "health", "pin"}

----------------------------------------------------------------------------
(* middleware/ratelimit.py: the limiter in front of the endpoints.  The
   limiter keeps a fixed window per key in memory: the first hit of a key
   starts the window, every hit counts, and the entry is dropped once its
   expiry has passed. *)

\* seconds in each granularity of a limit string such as "5/minute"
GranularitySeconds == [minute |-> 60, hour |-> 60 * 60]

VERIFY_LIMIT == [amount |-> 5, multiples |-> 1, granularity |-> "minute"]

QRNG_LIMIT == [amount |-> 10, multiples |-> 1, granularity |-> "minute"]

IPFS_LIMIT == [amount |-> 3, multiples |-> 1, granularity |-> "minute"]

\* Limiter(default_limits=["100/minute"])
DEFAULT_LIMITS == <<[amount |-> 100, multiples |-> 1, granularity |-> "minute"]>>

\* the middleware main.py adds to the application
Middleware == {"CORSMiddleware"}

Endpoints == {"verify_proof", "generate_quantum_seed", "pin_encrypted_data"}

RoutePaths ==
    [verify_proof          |-> "/api/verify",
     generate_quantum_seed |-> "/api/quantum-seed",
     pin_encrypted_data    |-> "/api/ipfs/pin"]

\* the limits the @limiter.limit decorators attach to each endpoint
Decorated ==
    [verify_proof          |-> <<VERIFY_LIMIT>>,
     generate_quantum_seed |-> <<QRNG_LIMIT>>,
     pin_encrypted_data    |-> <<>>]

\* the limits checked before a call of the endpoint: those of its decorator;
\* the default limits are checked by the limiter's middleware only
LimitsChecked(e) ==
    IF Decorated[e] # <<>> THEN Decorated[e]
    ELSE IF "SlowAPIMiddleware" \in Middleware THEN DEFAULT_LIMITS
    ELSE <<>>

\* the window of a limit, in seconds
GetExpiry(limit) == GranularitySeconds[limit.granularity] * limit.multiples

\* str(int)
RECURSIVE Decimal(_)
Decimal(n) ==
    IF n < 10 THEN <<Digits[n + 1]>>
    ELSE Decimal(n \div 10) \o <<Digits[(n % 10) + 1]>>

Granularities ==
    [minute |-> <<"m", "i", "n", "u", "t", "e">>, hour |-> <<"h", "o", "u", "r">>]

\* str(limit), the detail of RateLimitExceeded: "5 per 1 minute"
LimitStr(limit) ==
    Decimal(limit.amount) \o <<" ", "p", "e", "r", " ">>
        \o Decimal(limit.multiples) \o <<" ">> \o Granularities[limit.granularity]

\* the response of rate_limit_exceeded_handler
RateLimitExceededResponse(limit) ==
    [status  |-> 429,
     detail  |-> <<"R", "a", "t", "e", " ", "l", "i", "m", "i", "t", " ",
                   "e", "x", "c", "e", "e", "d", "e", "d", ".", " ",
                   "P", "l", "e", "a", "s", "e", " ", "t", "r", "y", " ",
                   "a", "g", "a", "i", "n", " ", "l", "a", "t", "e", "r", ".",
                   " ", "(", "L", "i", "m", "i", "t", ":", " ">>
                 \o LimitStr(limit) \o <<")">>,
     headers |-> {<<"Retry-After", "60">>}]

\* the status codes each endpoint answers with when it is called
HandlerAnswers ==
    [verify_proof          |-> {200},
     generate_quantum_seed |-> {200},
     pin_encrypted_data    |-> {200, 400, 413, 503}]

Clients == {"testclient", "10.0.0.2"}

\* the keys of the limiter's storage: client address and path
Keys == Clients \X Range(RoutePaths)

\* the counter of a key at time t: an entry whose expiry has passed is dropped
StorageGet(key, t) == IF expirations[key] <= t THEN 0 ELSE storage[key]

\* a hit is within the limit
Hit_CountsFromZero(count, limit) == count - 1 <= limit.amount

Hit(count, limit) == count <= limit.amount

\* the limit ratelimit.py configures for each endpoint
Configured ==
    [verify_proof          |-> VERIFY_LIMIT,
     generate_quantum_seed |-> QRNG_LIMIT,
     pin_encrypted_data    |-> IPFS_LIMIT]

\* the traffic followed in one behaviour: two clients of one endpoint, or
\* one client of two endpoints
Traffic ==
    {{<<"testclient", "verify_proof">>, <<"10.0.0.2", "verify_proof">>},
     {<<"testclient", "generate_quantum_seed">>,
      <<"10.0.0.2", "generate_quantum_seed">>},
     {<<"testclient", "pin_encrypted_data">>,
      <<"10.0.0.2", "pin_encrypted_data">>},
     {<<"testclient", "verify_proof">>, <<"testclient", "generate_quantum_seed">>},
     {<<"testclient", "verify_proof">>, <<"testclient", "pin_encrypted_data">>}}

\* the clients and endpoints that have made and received requests so far
Senders ==
    {s \in Clients \X Endpoints : minute[<<s[1], RoutePaths[s[2]]>>].n > 0}

LimiterIdle ==
    /\ now = 0
    /\ storage = [k \in Keys |-> 0]
    /\ expirations = [k \in Keys |-> 0]
    /\ minute = [k \in Keys |-> [start |-> 0, n |-> 0]]
    /\ served = None

\* one request of client c to endpoint e: the limiter's check, then the
\* endpoint, or the 429 of rate_limit_exceeded_handler
LimitedRequest(c, e) ==
    LET key    == <<c, RoutePaths[e]>>
        limits == LimitsChecked(e)
        fresh  == minute[key].n = 0 \/ now - minute[key].start >= 60
        nth    == IF fresh THEN 1 ELSE minute[key].n + 1
        count  == StorageGet(key, now) + 1
        failed == limits # <<>> /\ ~Hit(count, limits[1])
    IN  /\ \E t \in Traffic : Senders \cup {<<c, e>>} \subseteq t
        /\ nth <= Configured[e].amount + MaxOver
        /\ minute' = [minute EXCEPT
                         ![key] = [start |-> IF fresh THEN now ELSE @.start,
                                   n     |-> nth]]
        /\ IF limits = <<>>
           THEN UNCHANGED <<storage, expirations>>
           ELSE /\ storage' = [storage EXCEPT ![key] = count]
                /\ expirations' =
                       [expirations EXCEPT
                           ![key] = IF count = 1
                                    THEN now + GetExpiry(limits[1]) ELSE @]
        /\ \E st \in HandlerAnswers[e] :
              served' =
                  [client |-> c, endpoint |-> e, at |-> now, nth |-> nth] @@
                  (IF failed
                   THEN [ran |-> FALSE] @@ RateLimitExceededResponse(limits[1])
                   ELSE [ran |-> TRUE, status |-> st, detail |-> <<>>,
                         headers |-> {}])
        /\ UNCHANGED now

\* time passes, half a minute at a time
Tick ==
    /\ now < MaxTicks * (GranularitySeconds["minute"] \div 2)
    /\ now' = now + GranularitySeconds["minute"] \div 2
    /\ UNCHANGED <<storage, expirations, minute, served>>

----------------------------------------------------------------------------
(* retry_async called directly, with any configuration and any operation *)

InitRetry ==
    /\ RetryIdle /\ VerifyIdle /\ SeedIdle /\ PinIdle /\ TasksIdle /\ GetIdle
    /\ LimiterIdle

NextRetry ==
    \/ /\ pc = "idle"
       /\ \E c \in ConfigArgs : RetryCall(c)
       /\ UNCHANGED <<limitVars, verifyVars, seedVars, pinVars, decorated, taskVars, getVars>>
    \/ /\ pc = "idle"
       /\ \E p \in DecoratorArgs : DecoratedCall(p)
       /\ UNCHANGED <<limitVars, verifyVars, seedVars, pinVars, taskVars, getVars>>
    \/ /\ pc = "attempt"
       /\ \E out \in FuncOutcomes(calls + 1) : RetryAttempt(out)
       /\ UNCHANGED <<limitVars, verifyVars, seedVars, pinVars, decorated, taskVars, getVars>>
    \/ /\ RetrySleepDone
       /\ UNCHANGED <<limitVars, verifyVars, seedVars, pinVars, decorated, taskVars, getVars>>

SpecRetry == InitRetry /\ [][NextRetry]_vars

----------------------------------------------------------------------------
(* verify_proof handling one request *)

InitVerify ==
    /\ RetryIdle /\ VerifyIdle /\ SeedIdle /\ PinIdle /\ TasksIdle /\ GetIdle
    /\ LimiterIdle

NextVerify ==
    \/ /\ vpc = "idle"
       /\ \E b \in Requests : VerifyProof(b)
       /\ UNCHANGED <<limitVars, retryVars, seedVars, pinVars, decorated, taskVars, getVars>>
    \/ /\ vpc = "classify"
       /\ \E o \in ClassifierOutcomes : ClassifierReturns(o)
       /\ UNCHANGED <<limitVars, retryVars, seedVars, pinVars, decorated, taskVars, getVars>>

SpecVerify == InitVerify /\ [][NextVerify]_vars

----------------------------------------------------------------------------
(* generate_quantum_seed handling one request *)

InitSeed ==
    /\ RetryIdle /\ VerifyIdle /\ SeedIdle /\ PinIdle /\ TasksIdle /\ GetIdle
    /\ LimiterIdle

NextSeed ==
    \/ /\ spc = "idle"
       /\ \E n \in SeedSizes : GenerateQuantumSeed(n)
       /\ UNCHANGED <<limitVars, verifyVars, pinVars, decorated, taskVars, getVars>>
    \/ /\ pc = "attempt"
       /\ \E resp \in EndpointResponses(size) : SeedAttempt(resp)
       /\ UNCHANGED <<limitVars, verifyVars, pinVars, decorated, taskVars, getVars>>
    \/ /\ SeedSleepDone
       /\ UNCHANGED <<limitVars, verifyVars, pinVars, decorated, taskVars, getVars>>

SpecSeed == InitSeed /\ [][NextSeed]_vars

----------------------------------------------------------------------------
(* one request to the router of api/ipfs.py, POST /api/ipfs/pin with any
   data or GET /api/ipfs/<segment>, against any IPFS node *)

InitPin ==
    /\ RetryIdle /\ VerifyIdle /\ SeedIdle /\ PinIdle /\ TasksIdle /\ GetIdle
    /\ LimiterIdle

NextPin ==
    \/ /\ ipc = "idle" /\ gpc = "idle"
       /\ \E d \in PinDatas, probe \in StoreProbes : PinEncryptedData(d, probe)
       /\ UNCHANGED <<limitVars, retryVars, verifyVars, seedVars, decorated, taskVars, getVars>>
    \/ /\ ipc = "adding"
       /\ \E a \in StoreAddAnswers : PinAddReturns(a)
       /\ UNCHANGED <<limitVars, retryVars, verifyVars, seedVars, decorated, taskVars, getVars>>
    \/ /\ ipc = "idle" /\ gpc = "idle"
       /\ \E segment \in GetSegments, probe \in StoreProbes : IpfsGet(segment, probe)
       /\ UNCHANGED <<limitVars, retryVars, verifyVars, seedVars, decorated, taskVars,
                      ipc, pin_request, data_bytes, pin_response>>
    \/ /\ gpc = "fetching"
       /\ \E a \in StoreCatAnswers : CatReturns(a)
       /\ UNCHANGED <<limitVars, retryVars, verifyVars, seedVars, decorated, taskVars,
                      ipc, pin_request, data_bytes, pin_response>>

SpecPin == InitPin /\ [][NextPin]_vars

----------------------------------------------------------------------------
(* several tasks of one event loop, each calling retry_async once with one
   of the shared presets *)

InitTasks ==
    /\ RetryIdle /\ VerifyIdle /\ SeedIdle /\ PinIdle /\ TasksIdle /\ GetIdle
    /\ LimiterIdle

NextTasks ==
    \/ /\ \E t \in Tasks, name \in DOMAIN Presets : TaskCall(t, name)
       /\ UNCHANGED <<limitVars, retryVars, verifyVars, seedVars, pinVars, decorated, getVars>>
    \/ /\ \E t \in Tasks :
             \E out \in TaskOutcomes(tasks[t].attempt) : TaskAttempt(t, out)
       /\ UNCHANGED <<limitVars, retryVars, verifyVars, seedVars, pinVars, decorated, getVars>>
    \/ /\ \E t \in Tasks : TaskSleepDone(t)
       /\ UNCHANGED <<limitVars, retryVars, verifyVars, seedVars, pinVars, decorated, getVars>>

SpecTasks == InitTasks /\ [][NextTasks]_vars

----------------------------------------------------------------------------
(* requests of several clients to the rate-limited endpoints, over time *)

InitLimits ==
    /\ RetryIdle /\ VerifyIdle /\ SeedIdle /\ PinIdle /\ TasksIdle /\ GetIdle
    /\ LimiterIdle

NextLimits ==
    \/ /\ \E c \in Clients, e \in Endpoints : LimitedRequest(c, e)
       /\ UNCHANGED <<retryVars, verifyVars, seedVars, pinVars, decorated,
                      taskVars, getVars>>
    \/ /\ Tick
       /\ UNCHANGED <<retryVars, verifyVars, seedVars, pinVars, decorated,
                      taskVars, getVars>>

SpecLimits == InitLimits /\ [][NextLimits]_vars

----------------------------------------------------------------------------
(* Properties of retry_async *)

\* the configuration classifies exception e as retryable
ClassifiedRetryable(e) ==
    \E i \in 1..Len(config.retryable_exceptions) :
        config.retryable_exceptions[i] \in Bases(e.cls)

\* every invocation of func so far ended in a retryable failure
AllFailedRetryable ==
    \A i \in 1..Len(history) :
        history[i].kind = "raise" /\ ClassifiedRetryable(history[i])

\* the spec's delay_i: delay_1 = initial_delay,
\* delay_{i+1} = min(delay_i * backoff_factor, max_delay)
RECURSIVE SpecDelay(_, _)
SpecDelay(cfg, i) ==
    IF i <= 1 THEN cfg.initial_delay
    ELSE Min(SpecDelay(cfg, i - 1) * cfg.backoff_factor, cfg.max_delay)

\* C1: with max_attempts >= 1, one call of retry_async invokes the operation
\* at most max_attempts times; when every attempt fails with a retryable
\* failure it has invoked it exactly max_attempts times when it ends, and it
\* ends by failing.
C1_AtMostMaxAttempts ==
    (pc # "idle" /\ config.max_attempts >= 1) =>
        /\ calls <= config.max_attempts
        /\ (pc = "done" /\ AllFailedRetryable) =>
              (calls = config.max_attempts /\ ret.kind = "raise")

C1_Witness ==
    /\ pc = "done"
    /\ config.max_attempts = 3
    /\ AllFailedRetryable
    /\ calls = 3
    /\ ret.kind = "raise"

\* C2: an attempt that fails with a failure the configuration does not
\* classify as retryable ends retry_async at once: it is the last invocation,
\* the failure is what the caller gets, and no wait follows it (the waits made
\* are those after the earlier attempts).
C2_NonRetryablePropagates ==
    \A i \in 1..Len(history) :
        (history[i].kind = "raise" /\ ~ClassifiedRetryable(history[i])) =>
            /\ i = Len(history)
            /\ pc = "done"
            /\ ret = history[i]
            /\ sleeps = i - 1

C2_Witness ==
    /\ pc = "done"
    /\ config.max_attempts = 3
    /\ config.retryable_exceptions = <<"RetryableError">>
    /\ calls = 1
    /\ history[1].kind = "raise"
    /\ history[1].cls = "NonRetryableError"
    /\ ret = history[1]

\* C3: when attempt k succeeds, retry_async returns exactly that attempt's
\* result, the operation has been invoked exactly k times (the k-1 earlier
\* ones being retryable failures), and neither a wait nor an invocation
\* follows the success.
C3_SuccessReturnsAtOnce ==
    \A k \in 1..Len(history) :
        history[k].kind = "return" =>
            /\ k = calls
            /\ k <= config.max_attempts
            /\ pc = "done"
            /\ ret = Returned(history[k].value)
            /\ sleeps = k - 1
            /\ \A i \in 1..(k - 1) :
                  history[i].kind = "raise" /\ ClassifiedRetryable(history[i])

C3_Witness ==
    /\ pc = "done"
    /\ calls = 3
    /\ history[1].kind = "raise"
    /\ history[2].kind = "raise"
    /\ history[3] = Returned("r2")
    /\ ret = Returned("r2")
    /\ sleeps = 2

\* C7: when all max_attempts attempts fail with retryable failures, the
\* failure the caller gets is the one the final attempt raised, and no wait
\* follows the final attempt: waits = invocations - 1.
C7_LastFailurePropagates ==
    (pc = "done" /\ config.max_attempts >= 1 /\ AllFailedRetryable
        /\ calls = config.max_attempts) =>
        /\ ret = history[config.max_attempts]
        /\ ret.at = config.max_attempts
        /\ sleeps = calls - 1

C7_Witness ==
    /\ pc = "done"
    /\ config.max_attempts = 3
    /\ AllFailedRetryable
    /\ calls = 3
    /\ history[1].cls # history[3].cls
    /\ ret = history[3]
    /\ sleeps = 2

\* C8: with jitter disabled, 0 < initial_delay <= max_delay and
\* backoff_factor > 1, the wait between attempt i and attempt i+1 is delay_i.
C8_BackoffSchedule ==
    (pc = "sleep" /\ ~config.jitter /\ 0 < config.initial_delay
        /\ config.initial_delay <= config.max_delay /\ config.backoff_factor > 1) =>
        /\ attempt < config.max_attempts
        /\ sleeps = attempt
        /\ current_delay = SpecDelay(config, attempt)

C8_Witness ==
    /\ pc = "sleep"
    /\ ~config.jitter
    /\ config.initial_delay = 10
    /\ config.backoff_factor = 3
    /\ config.max_delay = 20
    /\ attempt = 2
    /\ current_delay = 20

C10_JitterWithinTenPercent ==
    (pc = "sleep" /\ config.jitter) =>
        LET d == Min(delay, config.max_delay)
            w == current_delay
        IN  /\ 9 * d <= 10 * w
            /\ 10 * w <= 11 * d
            /\ w >= 0

C10_Witness ==
    /\ pc = "sleep"
    /\ config.jitter
    /\ Min(delay, config.max_delay) = 40
    /\ current_delay = 36

----------------------------------------------------------------------------
(* Properties of verify_proof *)

\* C4: every value the running score takes is an integer in 0..100, so it is
\* never negative at any stage, and the confidence of every VerificationResult
\* is an integer in 0..100: the last value of the score.
C4_ConfidenceInRange ==
    /\ \A i \in DOMAIN scores : scores[i] \in 0..100
    /\ (vpc = "done" /\ response.kind = "response") =>
          /\ response.confidence \in 0..100
          /\ response.confidence = scores[Len(scores)]

C4_Witness ==
    /\ vpc = "done"
    /\ response.kind = "response"
    /\ Len(scores) = 6
    /\ scores[5] = 100
    /\ heur.checks.aiVerified = PyBool(TRUE)
    /\ response.confidence = 100

\* C5: the returned verified flag is true exactly when the three structural
\* checks passed and the final confidence is at least 70; verified and
\* needsSecondPhoto are never both true.
C5_VerifiedIffChecksAndScore ==
    (vpc = "done" /\ response.kind = "response") =>
        /\ response.verified <=>
              (/\ response.checks.validGoal
               /\ response.checks.sufficientReflection
               /\ response.checks.validImage
               /\ response.confidence >= 70)
        /\ ~(response.verified /\ response.needsSecondPhoto)

C5_Witness ==
    /\ vpc = "done"
    /\ response.kind = "response"
    /\ response.verified
    /\ response.checks.validGoal
    /\ response.checks.sufficientReflection
    /\ response.checks.validImage
    /\ response.confidence >= 70
    /\ ~response.needsSecondPhoto

----------------------------------------------------------------------------
(* Properties of generate_quantum_seed *)

\* C6: generate_quantum_seed never fails because of the endpoint: once the
\* attempts are over there is a SeedResult.  If an attempt succeeded the
\* seed is the hex encoding of the bytes that attempt returned and the source
\* is "quantum"; if every attempt failed the seed is the hex encoding of
\* locally generated bytes and the source is "pseudo"; the source is
\* "quantum" exactly when the bytes came from the endpoint.
C6_SeedNeverFails ==
    /\ seed_response # None => seed_response.kind = "response"
    /\ pc = "done" =>
          /\ spc = "done"
          /\ seed_response.kind = "response"
          /\ history[Len(history)].kind = "return" =>
                /\ seed_response.source = "quantum"
                /\ seed_bytes = history[Len(history)].value
                /\ seed_response.seed = Hex(history[Len(history)].value.data)
          /\ (\A i \in DOMAIN history : history[i].kind = "raise") =>
                /\ seed_response.source = "pseudo"
                /\ seed_bytes.origin = "local"
                /\ seed_response.seed = Hex(seed_bytes.data)
          /\ seed_response.source = "quantum" <=> seed_bytes.origin = "endpoint"

C6_Witness ==
    /\ pc = "done"
    /\ calls = 4
    /\ \A i \in DOMAIN history : history[i].kind = "raise"
    /\ {history[i].msg : i \in DOMAIN history} =
          {"timeout", "QRNG API returned status", "invalid JSON",
           "QRNG API returned wrong number of bytes"}
    /\ seed_response.kind = "response"
    /\ seed_response.source = "pseudo"
    /\ seed_bytes.origin = "local"

----------------------------------------------------------------------------
(* Further properties of retry_async *)

\* C11: with max_attempts = 1 retry_async invokes the operation exactly once
\* and never waits; what the operation returned is returned, and what it
\* raised is raised unchanged, retryable or not.
C11_SingleAttempt ==
    (pc # "idle" /\ config.max_attempts = 1) =>
        /\ sleeps = 0
        /\ pc # "sleep"
        /\ calls <= 1
        /\ pc = "done" => (calls = 1 /\ ret = history[1])

C11_Witness ==
    /\ pc = "done"
    /\ config.max_attempts = 1
    /\ calls = 1
    /\ sleeps = 0
    /\ history[1].kind = "raise"
    /\ ClassifiedRetryable(history[1])
    /\ ret = history[1]

\* retry_async ended because every one of max_attempts attempts failed with
\* a retryable failure
Exhausted ==
    /\ pc = "done"
    /\ config.max_attempts >= 1
    /\ calls = config.max_attempts
    /\ AllFailedRetryable

\* C12 as stated: when max_attempts is exhausted the failure delivered to
\* the caller carries the number of attempts made.
C12_Original ==
    Exhausted => ("attempts" \in DOMAIN ret /\ ret.attempts = calls)

\* C12 amended: when max_attempts is exhausted the failure delivered to the
\* caller is the exception the final attempt raised, with nothing added to
\* it; the number of attempts is in the error record written to the log just
\* before, and nowhere else.
C12_CountOnlyLogged ==
    Exhausted =>
        /\ ret = history[Len(history)]
        /\ "attempts" \notin DOMAIN ret
        /\ Len(log) = calls
        /\ log[Len(log)].level = "error"
        /\ log[Len(log)].attempts = calls
        /\ log[Len(log)].error = ret.msg
        /\ \A i \in 1..(Len(log) - 1) : log[i].level = "warning" /\ log[i].attempt = i

C12_Witness ==
    /\ Exhausted
    /\ calls = 3
    /\ ret.kind = "raise"
    /\ log[3] = [level |-> "error", attempts |-> 3, error |-> "fail"]

----------------------------------------------------------------------------
(* Further properties of verify_proof *)

\* the three structural checks of the request all passed
ChecksPassed ==
    /\ heur.checks.validGoal
    /\ heur.checks.sufficientReflection
    /\ heur.checks.validImage

\* the request carries no second image: the field is absent or empty
NoSecondImage == body.secondImageDataUrl \in {PyNone, PyText(<<>>)}

\* the classifier call did not produce a JSON object: it was not configured,
\* raised, answered with a status other than 200, or with content that is
\* not JSON or not a JSON object
NoVerdict(o) == o.kind \in {"no_key", "exception", "status", "not_json", "not_object"}

\* the verdict's plausible field, as the code reads it
SaysPlausible(o) == Truthy(Get(o.result.plausible, PyBool(FALSE)))

\* C13 as stated: whatever the classifier call does, verify_proof returns a
\* VerificationResult with a confidence in 0..100 and a feedback text.
C13_Original ==
    (vpc = "done" /\ classified # None) =>
        /\ response.kind = "response"
        /\ response.confidence \in 0..100
        /\ response.feedback.t = "str"

\* C14 as stated: when the classifier is not configured or its call fails,
\* a verdict that lacks an expected field included, the adjustment is 0 and
\* the final confidence is the pre-classifier score.
C14_Original ==
    (/\ vpc = "done"
     /\ classified # None
     /\ \/ NoVerdict(classified)
        \/ /\ classified.kind = "verdict"
           /\ Missing \in {classified.result.plausible, classified.result.confidence,
                            classified.result.feedback}) =>
        /\ ai_adjustment = 0
        /\ scores[6] = scores[5]

\* C14 amended: when the classifier is not configured, its call raises,
\* answers with a status other than 200 or with content that is no JSON
\* object, or a plausible verdict reports a confidence that is no number, the
\* adjustment is 0 and the final confidence is the pre-classifier score.  A
\* verdict that only lacks fields is read with defaults: without plausible it
\* counts as implausible (-20), without confidence as reporting 50 (+15 when
\* plausible).
C14_FailureLeavesScore ==
    (vpc = "done" /\ classified # None) =>
        /\ (\/ NoVerdict(classified)
            \/ /\ classified.kind = "verdict"
               /\ SaysPlausible(classified)
               /\ classified.result.confidence.t \notin {"int", "missing"}) =>
              /\ ai_adjustment = 0
              /\ scores[6] = scores[5]
              /\ response.kind = "response"
              /\ response.confidence = scores[5]
        /\ (classified.kind = "verdict" /\ classified.result.plausible = Missing) =>
              ai_adjustment = -20
        /\ (/\ classified.kind = "verdict"
            /\ SaysPlausible(classified)
            /\ classified.result.confidence = Missing) =>
              ai_adjustment = 15

C14_Witness ==
    /\ vpc = "done"
    /\ classified.kind = "verdict"
    /\ classified.result.plausible = PyBool(TRUE)
    /\ classified.result.confidence = PyStr("high")
    /\ ai_adjustment = 0
    /\ scores[5] = 72
    /\ response.kind = "response"
    /\ response.confidence = 72

\* C15 as stated: for a verdict accepted as a success the adjustment is the
\* integer truncation of 30% of the reported confidence and lies in 0..30
\* when the verdict is plausible, and is -20 when it is implausible.
C15_Original ==
    (/\ vpc = "done"
     /\ classified # None
     /\ classified.kind = "verdict"
     /\ classified.result.confidence.t \in {"int", "missing"}) =>
        IF SaysPlausible(classified)
        THEN /\ ai_adjustment =
                   TruncDiv(3 * Get(classified.result.confidence, PyInt(50)).n, 10)
             /\ ai_adjustment \in 0..30
        ELSE ai_adjustment = -20

C17_Original ==
    (/\ vpc = "done"
     /\ response.kind = "response"
     /\ ChecksPassed
     /\ NoSecondImage
     /\ response.confidence < 70) => response.needsSecondPhoto

\* C18: the classifier is called only for a request that passed the three
\* structural checks; for any other request verify_proof ends without a
\* classifier call and without an adjustment, and returns verified = false
\* with the score of the heuristics.
C18_ClassifierOnlyAfterChecks ==
    /\ (vpc = "classify" \/ ai_calls # <<>> \/ classified # None) => ChecksPassed
    /\ (vpc = "done" /\ ~ChecksPassed) =>
          /\ ai_calls = <<>>
          /\ classified = None
          /\ ai_adjustment = None
          /\ Len(scores) = 5
          /\ response.kind = "response"
          /\ ~response.verified
          /\ response.confidence = scores[5]
          /\ response.checks.aiVerified = PyNone

C18_Witness ==
    /\ vpc = "done"
    /\ heur.checks.validGoal
    /\ heur.checks.sufficientReflection
    /\ ~heur.checks.validImage
    /\ ai_calls = <<>>
    /\ response.kind = "response"
    /\ response.confidence = 80
    /\ ~response.verified

\* the goal ids of the fixed goal set
KnownGoalIds == {"run_5km", "read_20_pages", "meditate_10min", "make_sketch", "custom"}

\* the image payloads of this model that are well-formed image data URIs
WellFormedImages ==
    {ImageHead(<<"p", "n", "g">>) \o <<"i", "V", "B", "O", "R", "w", "=", "=">>,
     ImageHead(<<"j", "p", "e", "g">>) \o <<"/", "9", "j", "+">>,
     ImageHead(<<"p", "n", "g">>) \o <<"A", "A", "A", "A", "\n">>}

\* what the reason says for each check the request fails
FailedCheckReasons ==
    (IF body.goalId \in KnownGoalIds THEN {} ELSE {"Invalid goal ID"})
    \cup (IF Len(Strip(body.reflection)) >= 20 THEN {} ELSE {"Reflection too short"})
    \cup (IF body.imageDataUrl \in WellFormedImages THEN {}
          ELSE {"Invalid image data URL format"})

SharesWord ==
    /\ body.goalId \in DOMAIN VALID_GOALS
    /\ SplitWords(Lower(VALID_GOALS[body.goalId]))
          \cap SplitWords(Lower(body.reflection)) # {}

\* C20: without a classifier configured, a submission that passes the three
\* structural checks and whose reflection shares a word with the goal's
\* display name gets a confidence of at least 70 and verified = true.
C20_KeywordMatchVerifies ==
    (/\ vpc = "done"
     /\ classified = [kind |-> "no_key"]
     /\ ChecksPassed
     /\ SharesWord) =>
        /\ response.kind = "response"
        /\ response.confidence >= 70
        /\ response.verified

C20_Witness ==
    /\ vpc = "done"
    /\ classified = [kind |-> "no_key"]
    /\ body.goalId = "run_5km"
    /\ SubSeq(body.reflection, 1, 4) = <<"R", "U", "N", " ">>
    /\ response.kind = "response"
    /\ response.confidence = 72
    /\ response.verified

----------------------------------------------------------------------------
(* Further properties of generate_quantum_seed *)

\* 2 to the power k
RECURSIVE Pow2(_)
Pow2(k) == IF k <= 0 THEN 1 ELSE 2 * Pow2(k - 1)

\* C22: a seed request runs retry_async with the network policy: at most 4
\* calls of the endpoint; the k-th wait is nominally 2 s * 2^(k-1), that is
\* 2 s, 4 s and 8 s, below the cap of 16 s, and within 10% of it once
\* jittered; when every call fails there were exactly 4 calls and 3 waits,
\* and the result comes from the pseudo path.
C22_NetworkPolicy ==
    spc # "idle" =>
        /\ config.max_attempts = 4
        /\ calls <= 4
        /\ sleeps <= 3
        /\ pc = "sleep" =>
              LET nominal == 20 * Pow2(sleeps - 1)
              IN  /\ sleeps = calls
                  /\ nominal \in {20, 40, 80}
                  /\ nominal <= 160
                  /\ current_delay >= nominal - nominal \div 10
                  /\ current_delay <= nominal + nominal \div 10
        /\ (pc = "done" /\ \A i \in DOMAIN history : history[i].kind = "raise") =>
              /\ calls = 4
              /\ sleeps = 3
              /\ spc = "done"
              /\ seed_response.kind = "response"
              /\ seed_response.source = "pseudo"

C22_Witness ==
    /\ spc = "done"
    /\ calls = 4
    /\ sleeps = 3
    /\ \A i \in DOMAIN history :
          history[i].kind = "raise" /\ history[i].cls = "TimeoutException"
    /\ seed_response.source = "pseudo"

\* the endpoint's answer to the call just made has status 200, a true
\* success indicator and exactly as many values as were asked for
AnswerComplete ==
    /\ answer.kind = "http"
    /\ answer.status = 200
    /\ answer.json.t = "object"
    /\ answer.json.success = PyBool(TRUE)
    /\ Len(answer.json.data) = size

\* C23: the answer of the endpoint is accepted as quantum bytes only if it
\* has status 200, a true success indicator and exactly n values; any other
\* answer makes the attempt fail with a retryable failure, which is retried
\* while attempts remain, and its data is never returned as a quantum seed.
C23_OnlyCompleteAnswersAccepted ==
    (spc # "idle" /\ answer # None) =>
        LET last == history[Len(history)]
        IN  /\ last.kind = "return" =>
                  /\ AnswerComplete
                  /\ last.value.data = answer.json.data
            /\ ~AnswerComplete =>
                  /\ last.kind = "raise"
                  /\ ClassifiedRetryable(last)
                  /\ IF calls < 4 THEN pc = "sleep" /\ seed_response = None
                     ELSE /\ spc = "done"
                          /\ seed_response.kind = "response"
                          /\ seed_response.source = "pseudo"
                          /\ seed_bytes.origin = "local"
            /\ (seed_response # None /\ seed_response.kind = "response"
                  /\ seed_response.source = "quantum") =>
                  /\ AnswerComplete
                  /\ seed_response.seed = Hex(answer.json.data)

C23_Witness ==
    /\ pc = "sleep"
    /\ calls = 2
    /\ answer.kind = "http"
    /\ answer.status = 200
    /\ answer.json.t = "object"
    /\ answer.json.success = PyBool(TRUE)
    /\ Len(answer.json.data) = size + 1
    /\ history[2].kind = "raise"
    /\ seed_response = None

\* C24: for every size n asked for in 16..128, on the quantum and on the
\* pseudo path, the seed returned is the hex encoding of exactly n bytes, 2n
\* hex digits, and the size field is n.
C24_SeedHasRequestedSize ==
    (spc = "done" /\ seed_response.kind = "response") =>
        /\ size \in 16..128
        /\ seed_response.size = size
        /\ Len(seed_bytes.data) = size
        /\ Len(seed_response.seed) = 2 * size
        /\ seed_response.seed = Hex(seed_bytes.data)
        /\ \A i \in DOMAIN seed_response.seed :
              seed_response.seed[i] \in Range(HexDigits)

C24_Witness ==
    /\ spc = "done"
    /\ size = 16
    /\ seed_response.kind = "response"
    /\ seed_response.source = "pseudo"
    /\ seed_response.size = 16
    /\ Len(seed_response.seed) = 32

\* C25 as stated: the timestamp of the result is read after the last attempt
\* at the endpoint has ended, not before the first.
C25_Original ==
    (spc = "done" /\ seed_response.kind = "response") =>
        seed_response.timestamp >= clock

----------------------------------------------------------------------------
(* Properties of pin_encrypted_data *)

\* the characters of a tail are well-formed base64: whole groups of four
\* characters of the alphabet, the last group ending in at most two pads
Pads(t) == Cardinality({i \in DOMAIN t : t[i] = "="})

WellFormedBase64(t) ==
    /\ Len(t) % 4 = 0
    /\ Pads(t) <= 2
    /\ \A i \in DOMAIN t :
          \/ t[i] \in Range(B64Alphabet)
          \/ t[i] = "=" /\ i > Len(t) - Pads(t)

\* the number of bytes that well-formed base64 data stands for
DecodedLength(d) == 3 * d.groups + 3 * (Len(d.tail) \div 4) - Pads(d.tail)

\* C29: a decoded payload of more than 10 MiB is answered 413 and the IPFS
\* node sees no request for it, neither the probe nor the add; a payload of
\* at most 10 MiB, exactly 10 MiB included, is never answered 413 and goes
\* on to the probe; well-formed data decodes to the length it stands for.
C29_SizeLimit ==
    ipc # "idle" =>
        /\ WellFormedBase64(pin_request.data.tail) =>
              /\ data_bytes # None
              /\ Size(data_bytes) = DecodedLength(pin_request.data)
        /\ (data_bytes # None /\ Size(data_bytes) > MAX_FILE_SIZE) =>
              /\ ipc = "done"
              /\ pin_response.kind = "error"
              /\ pin_response.status = 413
              /\ store_calls = <<>>
        /\ (data_bytes # None /\ Size(data_bytes) <= MAX_FILE_SIZE) =>
              /\ pin_response # None => pin_response.status # 413
              /\ store_calls # <<>>
              /\ store_calls[1].op = "version"

C29_Witness ==
    /\ ipc = "done"
    /\ data_bytes # None
    /\ Size(data_bytes) = MAX_FILE_SIZE + 1
    /\ pin_response.status = 413
    /\ store_calls = <<>>

\* C30 as stated: data that is not well-formed base64 is answered 400 and
\* the IPFS node sees no request for it; data with a character outside the
\* alphabet is never decoded and sent in an add request.
C30_Original ==
    (ipc # "idle" /\ ~WellFormedBase64(pin_request.data.tail)) =>
        /\ ipc = "done"
        /\ pin_response.kind = "error"
        /\ pin_response.status = 400
        /\ data_bytes = None
        /\ store_calls = <<>>

----------------------------------------------------------------------------
(* Properties of retry_with_exponential_backoff *)

\* the value of the decorator's parameter: the argument given, or the
\* default written in the signature on lines 99-104
Param(name, default) ==
    IF name \in DOMAIN decorated THEN decorated[name] ELSE default

\* C28: a call of a wrapped function is a call of retry_async with the
\* RetryConfig of the decorator's parameters: the operation is invoked at
\* most max_attempts times, each wait follows a retryable failure and is the
\* capped (and, with jitter, jittered) delay of its position, the failure
\* that ends the call is the operation's own last failure, and on success
\* the operation's return value is returned unchanged.
C28_DecoratorIsRetryAsync ==
    (pc # "idle" /\ decorated # None) =>
        LET cfg == [max_attempts |-> Param("max_attempts", 3),
                    initial_delay |-> Param("initial_delay", 10),
                    max_delay |-> Param("max_delay", 600),
                    backoff_factor |-> Param("backoff_factor", 2),
                    jitter |-> Param("jitter", TRUE),
                    retryable_exceptions |->
                        Param("retryable_exceptions", <<"Exception">>)]
            nominal == Min(SpecDelay(cfg, sleeps), cfg.max_delay)
        IN  /\ config = cfg
            /\ calls <= Max(cfg.max_attempts, 0)
            /\ sleeps = IF pc = "done" THEN Max(calls - 1, 0) ELSE calls
            /\ pc = "sleep" =>
                  /\ history[calls].kind = "raise"
                  /\ \E i \in 1..Len(cfg.retryable_exceptions) :
                        cfg.retryable_exceptions[i] \in Bases(history[calls].cls)
                  /\ calls < cfg.max_attempts
                  /\ IF cfg.jitter
                     THEN /\ 10 * current_delay >= 9 * nominal
                          /\ 10 * current_delay <= 11 * nominal
                     ELSE current_delay = nominal
            /\ (pc = "done" /\ cfg.max_attempts >= 1) =>
                  /\ calls >= 1
                  /\ ret = history[calls]
                  /\ ret.kind = "raise" =>
                        \/ calls = cfg.max_attempts
                        \/ \A i \in 1..Len(cfg.retryable_exceptions) :
                              cfg.retryable_exceptions[i] \notin Bases(ret.cls)

C28_Witness ==
    /\ pc = "done"
    /\ decorated # None
    /\ DOMAIN decorated = {"initial_delay", "max_delay"}
    /\ decorated.initial_delay = 50
    /\ decorated.max_delay = 60
    /\ calls = 3
    /\ sleeps = 2
    /\ history[1].kind = "raise"
    /\ history[2].kind = "raise"
    /\ ret = Returned("r1")

----------------------------------------------------------------------------
(* Properties of concurrent calls of retry_async *)

\* C26: while a task waits between two attempts, every other task can take
\* its next step, whatever it is: call retry_async, make an attempt, or come
\* back from its own wait.
C26_WaitSuspendsOnlyItsTask ==
    \A t \in Tasks : \A u \in Tasks \ {t} :
        tasks[t].pc = "sleep" =>
            /\ tasks[u].pc = "idle" =>
                  ENABLED (\E name \in DOMAIN Presets : TaskCall(u, name))
            /\ tasks[u].pc = "attempt" =>
                  ENABLED (\E out \in TaskOutcomes(tasks[u].attempt) :
                              TaskAttempt(u, out))
            /\ tasks[u].pc = "sleep" => ENABLED TaskSleepDone(u)

\* task 2 was called, failed, waited, tried again and returned, all during
\* the first wait of task 1
C26_Witness ==
    /\ tasks[1].pc = "sleep"
    /\ tasks[1].sleeps = 1
    /\ tasks[2].began[1] = 1
    /\ tasks[2].pc = "done"
    /\ tasks[2].sleeps = 1
    /\ tasks[2].ret = Returned("r1")

----------------------------------------------------------------------------
(* Properties of retry_async with a configuration that allows no attempt *)

\* C39: a RetryConfig with max_attempts <= 0 is accepted as it is, and a
\* call of retry_async with it ends at once: the operation is never invoked,
\* nothing is waited for, and what the caller gets is the exception
\* Exception("Retry logic error"), neither a result nor a failure of the
\* operation.
C39_NoAttemptAllowed ==
    (pc # "idle" /\ config.max_attempts <= 0) =>
        /\ pc = "done"
        /\ calls = 0
        /\ sleeps = 0
        /\ log = <<>>
        /\ ret.kind = "raise"
        /\ ret.cls = "Exception"
        /\ ret.msg = "Retry logic error"

C39_Witness ==
    /\ pc = "done"
    /\ config.max_attempts = -1
    /\ calls = 0
    /\ ret = Raised("Exception", 0, "Retry logic error")

----------------------------------------------------------------------------
(* Properties of the score of heuristic_verification *)

\* the points of the three structural checks for the request, L being the
\* length of the stripped reflection
StructuralPoints ==
    LET L == Len(Strip(body.reflection))
    IN  (IF body.goalId \in KnownGoalIds THEN 30 ELSE 0)
        + (IF L >= 20 THEN Min(30, L \div 10) ELSE 0)
        + (IF body.imageDataUrl \in WellFormedImages THEN 20 ELSE 0)

\* C36: the score of heuristic_verification is 30 for a goal id of the goal
\* set, plus min(30, L div 10) when the stripped reflection has L >= 20
\* characters, plus 20 for a valid image data URI; then plus 20 when the
\* reflection shares a lower-cased word with the goal's display name, and
\* otherwise less 10 but not below 0.  An unknown goal id always takes the
\* penalty.  (scores[5] is the score heuristic_verification returns.)
C36_PreClassifierScore ==
    vpc # "idle" =>
        /\ scores[5] = IF SharesWord THEN StructuralPoints + 20
                       ELSE Max(0, StructuralPoints - 10)
        /\ body.goalId \notin KnownGoalIds =>
              scores[5] = Max(0, StructuralPoints - 10)

\* a reflection long enough for the cap of the length bonus to decide
C36_Witness ==
    /\ vpc = "done"
    /\ body.goalId = "run_5km"
    /\ Len(Strip(body.reflection)) = 404
    /\ body.imageDataUrl \in WellFormedImages
    /\ scores[5] = 100

----------------------------------------------------------------------------
(* Properties of the feedback of verify_proof *)

\* the classifier stage ran and gave a feedback that is not empty
ClassifierFeedbackGiven == classified # None /\ Truthy(ai_feedback)

\* C37: the feedback of a response is chosen in this order: for a verified
\* submission the classifier's feedback when it is not empty, else the
\* success message naming the goal; else, when a second photo is asked for,
\* the message asking for it with the confidence; else, when a structural
\* check failed, the message carrying the aggregated reason; else the
\* classifier's feedback when it is not empty, else the low-confidence
\* message with the confidence.  The reason is "Verified" exactly when
\* verified is true.
C37_FeedbackPriority ==
    (vpc = "done" /\ response.kind = "response") =>
        LET fb == response.feedback
        IN  /\ response.reason = [text |-> "Verified"] <=> response.verified
            /\ IF response.verified
               THEN IF ClassifierFeedbackGiven THEN fb = ai_feedback
                    ELSE /\ fb.s = "Proof verified!"
                         /\ fb.goal = PyText(VALID_GOALS[body.goalId])
               ELSE IF response.needsSecondPhoto
               THEN /\ fb.s = "Verification uncertain"
                    /\ fb.confidence = response.confidence
               ELSE IF ~ChecksPassed
               THEN /\ fb.s = "Verification failed:"
                    /\ fb.reason = response.reason
                    /\ "joined" \in DOMAIN fb.reason
               ELSE IF ClassifierFeedbackGiven THEN fb = ai_feedback
               ELSE /\ fb.s = "Confidence too low"
                    /\ fb.confidence = response.confidence

\* a verified submission for which the classifier gave an empty feedback
C37_Witness ==
    /\ vpc = "done"
    /\ response.kind = "response"
    /\ response.verified
    /\ classified # None
    /\ ai_feedback = PyStr("")
    /\ response.feedback.s = "Proof verified!"
    /\ response.reason = [text |-> "Verified"]

----------------------------------------------------------------------------
(* Properties of the second image of a verification request *)

\* the request carries a second image that is not the empty string
SecondImageGiven ==
    body.secondImageDataUrl.t = "text" /\ body.secondImageDataUrl.chars # <<>>

\* C40: the second image is not validated.  Whatever it is, the three
\* structural flags and the score of heuristic_verification are those of
\* the goal id, the reflection and the first image; a second image that is
\* not empty, well formed or not, is sent to the classifier after the first
\* one and the response never asks for a second photo; an empty string is
\* treated as no second image: the first image is sent alone and a second
\* photo is asked for exactly when the checks passed with a confidence from
\* 60 to 69.
C40_SecondImageNotValidated ==
    vpc # "idle" =>
        /\ heur.checks.validGoal <=> body.goalId \in KnownGoalIds
        /\ heur.checks.sufficientReflection <=> Len(Strip(body.reflection)) >= 20
        /\ heur.checks.validImage <=> body.imageDataUrl \in WellFormedImages
        /\ scores[5] = IF SharesWord THEN StructuralPoints + 20
                       ELSE Max(0, StructuralPoints - 10)
        /\ ChecksPassed =>
              /\ Len(ai_calls) = 1
              /\ ai_calls[1].images =
                    IF SecondImageGiven
                    THEN <<body.imageDataUrl, body.secondImageDataUrl.chars>>
                    ELSE <<body.imageDataUrl>>
        /\ (vpc = "done" /\ response.kind = "response") =>
              IF SecondImageGiven THEN ~response.needsSecondPhoto
              ELSE response.needsSecondPhoto <=>
                      (ChecksPassed /\ response.confidence \in 60..69)

\* a second image that is no data URI went to the classifier, which gave a
\* verdict, and the confidence is one that asks for a second photo when
\* none was sent
C40_Witness ==
    /\ vpc = "done"
    /\ response.kind = "response"
    /\ body.secondImageDataUrl = PyText(<<"j", "u", "n", "k">>)
    /\ classified.kind = "verdict"
    /\ ai_calls[1].images = <<body.imageDataUrl, <<"j", "u", "n", "k">>>>
    /\ response.confidence \in 60..69
    /\ ~response.needsSecondPhoto

----------------------------------------------------------------------------
(* Properties of the handlers of api/ipfs.py against a failing node *)

\* the node answered the availability probe, and not with status 200
ProbeFailed ==
    /\ store_answers # <<>>
    /\ ~(store_answers[1].kind = "status" /\ store_answers[1].code = 200)

\* the add or cat request was made and timed out or raised
CallFailed ==
    /\ Len(store_answers) = 2
    /\ store_answers[2].kind \in {"timeout", "exception"}

\* the node answered every request made to it with status 200
AllAnswered200 ==
    \A i \in DOMAIN store_answers :
        store_answers[i].kind = "status" /\ store_answers[i].code = 200

\* C31: for a pin request that passed validation and for a retrieval, a
\* failed availability probe ends the request with 503 and without an add
\* or cat request; an add or cat request that times out or raises, and an
\* add request answered with another status than 200, ends it with 503; a
\* handler that waits for the node can always get the timeout; and no
\* request succeeds unless the node answered 200 every time.
C31_UnreachableIs503 ==
    /\ ipc # "idle" =>
          /\ ProbeFailed =>
                /\ ipc = "done"
                /\ pin_response.kind = "error" /\ pin_response.status = 503
                /\ store_calls = <<[op |-> "version"]>>
          /\ (ipc = "done" /\ Len(store_answers) = 2
                /\ (CallFailed \/ store_answers[2].code # 200)) =>
                (pin_response.kind = "error" /\ pin_response.status = 503)
          /\ ipc = "adding" => ENABLED PinAddReturns([kind |-> "timeout"])
          /\ (ipc = "done" /\ pin_response.kind = "response") => AllAnswered200
    /\ (gpc # "idle" /\ handler = "retrieve_encrypted_data") =>
          /\ ProbeFailed =>
                /\ gpc = "done"
                /\ get_response.kind = "error" /\ get_response.status = 503
                /\ store_calls = <<[op |-> "version"]>>
          /\ (gpc = "done" /\ CallFailed) =>
                (get_response.kind = "error" /\ get_response.status = 503)
          /\ gpc = "fetching" => ENABLED CatReturns([kind |-> "timeout"])
          /\ (gpc = "done" /\ get_response.kind = "response") => AllAnswered200

\* a retrieval whose probe was answered and whose cat request timed out
C31_Witness ==
    /\ gpc = "done"
    /\ handler = "retrieve_encrypted_data"
    /\ store_answers = <<[kind |-> "status", code |-> 200], [kind |-> "timeout"]>>
    /\ get_response.kind = "error"
    /\ get_response.status = 503

\* C32: a retrieval from a node that answered the probe gives back what
\* the cat request gave: for status 200 a response 200 whose size is the
\* number of bytes and whose data is well-formed base64 that decodes to
\* exactly those bytes; for status 404 the error 404, after that one cat
\* request; for any other status, a timeout or an exception the error 503.
C32_RetrievalMapsAnswer ==
    (/\ gpc = "done"
     /\ handler = "retrieve_encrypted_data"
     /\ Len(store_answers) = 2) =>
        LET a == store_answers[2]
        IN  /\ store_calls = <<[op |-> "version"],
                               [op |-> "cat", arg |-> get_request.segment]>>
            /\ IF a.kind = "status" /\ a.code = 200
               THEN /\ get_response.kind = "response"
                    /\ get_response.status = 200
                    /\ get_response.size = Len(a.content)
                    /\ WellFormedBase64(get_response.data)
                    /\ B64Decode(PinData(0, get_response.data)) = Payload(0, a.content)
               ELSE IF a.kind = "status" /\ a.code = 404
               THEN /\ get_response.kind = "error"
                    /\ get_response.status = 404
               ELSE /\ get_response.kind = "error"
                    /\ get_response.status = 503

C32_Witness ==
    /\ gpc = "done"
    /\ handler = "retrieve_encrypted_data"
    /\ Len(store_answers) = 2
    /\ store_answers[2].kind = "status"
    /\ store_answers[2].code = 200
    /\ store_answers[2].content = <<0, 255, 16, 131>>
    /\ get_response.data = <<"A", "P", "8", "Q", "g", "w", "=", "=">>
    /\ get_response.size = 4

\* C33 as stated: GET /api/ipfs/health is handled by ipfs_health and is
\* answered 200 with a boolean ipfs_available, whatever the node does.
C33_Original ==
    (gpc # "idle" /\ get_request.segment = "health") =>
        /\ handler = "ipfs_health"
        /\ gpc = "done"
        /\ get_response.kind = "response"
        /\ get_response.status = 200
        /\ get_response.ipfs_available \in BOOLEAN

----------------------------------------------------------------------------
(* Properties of the rate limits *)

\* text s occurs in text t
Occurs(s, t) ==
    \E i \in 0..(Len(t) - Len(s)) : SubSeq(t, i + 1, i + Len(s)) = s

RateLimitExceededText ==
    <<"r", "a", "t", "e", " ", "l", "i", "m", "i", "t", " ",
      "e", "x", "c", "e", "e", "d", "e", "d">>

\* the last request was the n-th its client made to the endpoint within the
\* minute that began with the client's first request to it
NthOf(e, n) == served # None /\ served.endpoint = e /\ served.nth = n

NotRateLimited == served.status # 429 /\ served.ran

Rejected ==
    /\ served.status = 429
    /\ Occurs(RateLimitExceededText, Lower(served.detail))
    /\ ~served.ran

\* C35: per client address and within one minute (the minute that begins
\* with the client's first request), the first 5 POST /api/verify requests
\* are not rate-limited and the 6th is rejected with status 429 and a detail
\* that contains "rate limit exceeded" once lowercased, as the tests compare
\* it; the first 10 GET /api/quantum-seed requests are answered 200 and the
\* 11th is rejected with 429; a rejected request does not run the endpoint.
C35_VerifyAndSeedLimited ==
    /\ \A n \in 1..5 : NthOf("verify_proof", n) => NotRateLimited
    /\ NthOf("verify_proof", 6) => Rejected
    /\ \A n \in 1..10 :
          NthOf("generate_quantum_seed", n) =>
              NotRateLimited /\ served.status = 200
    /\ NthOf("generate_quantum_seed", 11) => Rejected
    /\ (served # None /\ served.status = 429) => ~served.ran

\* the sixth verification request of a client within a minute that began
\* half a minute before, rejected while another client is being served
C35_Witness ==
    /\ NthOf("verify_proof", 6)
    /\ served.client = "testclient"
    /\ served.status = 429
    /\ now - minute[<<"testclient", "/api/verify">>].start = 30
    /\ minute[<<"10.0.0.2", "/api/verify">>].n \in 1..5

\* C34 as stated: within one minute the first 3 POST /api/ipfs/pin requests
\* of a client are not rate-limited and the 4th is rejected with status 429.
C34_Original ==
    /\ \A n \in 1..3 : NthOf("pin_encrypted_data", n) => NotRateLimited
    /\ NthOf("pin_encrypted_data", 4) => served.status = 429

====
